---- MODULE Spec2Model ----
(***************************************************************************)
(* Model of the audio-playback subsystem of the Kokoro TTS MCP server:     *)
(* PurePythonAudioHandler of src/enhanced_audio_handler.py, and the tools  *)
(* of src/kokoro_tts_mcp.py that call it.                                  *)
(*                                                                         *)
(* The handler object holds a capability snapshot taken by its constructor *)
(* (_audio_libraries, _windows_audio_devices, is_windows).  play_audio_file*)
(* walks the four library backends in the order written in the source,     *)
(* then the winsound emergency fallback, then builds the exhaustion        *)
(* response.  Each successful start spawns a daemon thread that renders    *)
(* the audio; the model keeps the position of the foreground call (pc) and *)
(* the state of every thread the call spawned (tasks).                     *)
(*                                                                         *)
(* Specifications:                                                         *)
(*   Spec           play_audio_file and test_audio_system calls on a       *)
(*                  constructed handler                                    *)
(*   SpecMixer      Method 2 of play_audio_file entered by several threads *)
(*   SpecProbe      the constructor: library probes, device detection,     *)
(*                  driver check                                           *)
(*   SpecValidator  _verify_audio_format on any existing file              *)
(*   SpecClassifier _handle_windows_mci_error, called repeatedly           *)
(*   SpecList       list_audio_files on any output directory               *)
(*   SpecCli        main(), from the dispatch on the action to the exit    *)
(*   SpecHandler    the four public methods of one handler, interleaved    *)
(*   SpecFair       Spec with the thread that calls play_audio_file        *)
(*                  scheduled                                              *)
(*   SpecStart      one play_audio_file call, a raising import told apart  *)
(*                  from a raising thread start                            *)
(*   SpecSpeech     the generate_speech tool: temporary file, delayed      *)
(*                  cleanup and playback                                   *)
(*   SpecTools      handle_call_tool: the routing of the tool names        *)
(***************************************************************************)
EXTENDS Naturals, Sequences, FiniteSets

VARIABLES
    is_windows,             \* self.is_windows
    scipy_installed,        \* host: "from scipy.io import wavfile" succeeds
    audio_libraries,        \* self._audio_libraries
    windows_audio_devices,  \* self._windows_audio_devices
    mixer_init,             \* pygame.mixer.get_init() (global to the process)
    pc,                     \* position of the foreground play_audio_file call
    file,                   \* the file the current call was given
    format_check,           \* format_check of the current call (pre-flight)
    attempts,               \* backends whose try block the call entered, in order
    failed,                 \* backends whose try block raised
    tasks,                  \* state of the daemon thread spawned for each backend
    sample_rate,            \* sample_rate returned by wavfile.read
    classified,             \* <<backend, message>> handed to _handle_windows_mci_error
    log,                    \* logger lines emitted by the current call and its threads
    winsound_result,        \* value returned by _windows_winsound_fallback
    result,                 \* value returned by play_audio_file
    ncalls,                 \* number of play_audio_file calls made so far
    op,                     \* helper method applied directly to arg, if any
    arg,                    \* the argument that method was given
    ret,                    \* the value it returned
    mci_returned,           \* error message -> values _handle_windows_mci_error returned for it
    diag,                   \* value returned by the last test_audio_system call
    diag_checked,           \* libraries whose test block that call entered
    diag_quit_mixer,        \* test_audio_system has shut down a mixer play_audio_file had initialised
    probe_pc,               \* position of __init__
    host,                   \* what the imports, the mixer, sd.query_devices(), sc, wmic and MessageBeep answer on this host
    driver_status,          \* the dict of _check_windows_audio_drivers
    cli_pc,                 \* position of main(): "none" when the handler is not run from the command line
    cli_args,               \* the parsed command line
    exit_code,              \* exit status of the process once cli_pc = "exited"
    callers,                \* position of each of the concurrent play_audio_file calls inside Method 2
    reinitialised,          \* pygame.mixer.init() was called on a mixer already initialised
    import_raised,          \* the backends whose import statement raised inside play_audio_file
    speech_pc,              \* position of the generate_speech tool: "none" when it is not called
    playback_file,          \* generate_speech: "none", "saved" (saved_file_path) or "temp" (temp_file.name)
    temp_file,              \* the temporary file on disk: "absent", "present" or "unlinked"
    delayed_cleanup,        \* the delayed_cleanup thread: "none", "sleeping", "done" or "failed"
    slept,                  \* whole seconds delayed_cleanup has slept
    first_snapshot          \* the snapshot of the handler constructed first, once a second one is constructed

hostVars == <<is_windows, scipy_installed, audio_libraries, windows_audio_devices>>
callVars == <<pc, file, format_check, attempts, failed, tasks, sample_rate,
              classified, log, winsound_result, result, ncalls>>
unitVars == <<op, arg, ret, mci_returned>>
\* everything play_audio_file neither reads nor writes
diagVars == <<diag, diag_checked, diag_quit_mixer>>
probeVars == <<probe_pc, host, driver_status, first_snapshot>>
cliVars == <<cli_pc, cli_args, exit_code>>
speechVars == <<speech_pc, playback_file, temp_file, delayed_cleanup, slept>>
raceVars == <<callers, reinitialised, import_raised, speechVars>>
otherVars == <<unitVars, diagVars, probeVars, cliVars, raceVars>>
vars == <<hostVars, mixer_init, callVars, otherVars>>

----------------------------------------------------------------------------
(* Bounds *)

\* number of play_audio_file calls one behaviour makes on the handler
MaxCalls == 2

\* number of entries of the output directory
MaxDirEntries == 3

\* number of threads that call play_audio_file at the same time
MaxCallers == 3

----------------------------------------------------------------------------
(* Backends *)

\* Method 1 .. Method 4 of play_audio_file, in source order
BackendOrder == <<"sounddevice", "pygame", "simpleaudio", "pydub">>

Libraries == {BackendOrder[i] : i \in DOMAIN BackendOrder}

\* every backend that can own a daemon thread
AllBackends == Libraries \cup {"winsound"}

\* position of a library backend in the source order
Rank(b) == CHOOSE i \in DOMAIN BackendOrder : BackendOrder[i] = b

----------------------------------------------------------------------------
(* Error messages: str(e), as a sequence of words.  "x in error_msg" is   *)
(* membership of the word x; error_msg.lower() lowers every word.          *)

MsgDeviceBusy == <<"error", "263", "device", "busy">>
MsgMixer      == <<"Mixer", "not", "initialized">>
MsgThread     == <<"cannot", "start", "new", "thread">>
MsgZeroDiv    == <<"division", "by", "zero">>

ErrMsgs == {MsgDeviceBusy, MsgMixer, MsgThread}

\* messages _handle_windows_mci_error is applied to on its own
MsgErrnoThenBusy == <<"Errno", "259", "error", "263", "device", "busy">>
MsgMciBusy       == <<"MCI", "error", "263", "device", "busy">>
MsgBadParameter  == <<"MCI", "error", "259">>
MsgBadFormat     == <<"error", "277", "invalid", "format">>
MsgInsideWord    == <<"code", "12630">>
MsgMciDevice     == <<"MCI", "device", "not", "ready">>

ClassifierMsgs ==
    ErrMsgs \cup {MsgErrnoThenBusy, MsgMciBusy, MsgBadParameter, MsgBadFormat,
                  MsgInsideWord, MsgMciDevice}

\* words that hold another word inside them
Embedded == {<<"12630", "263">>, <<"MCIERR", "MCI">>}

\* "x in w" for one word w: Python's substring test
Within(x, w) == x = w \/ <<w, x>> \in Embedded

Contains(msg, word) == \E i \in DOMAIN msg : Within(word, msg[i])

LowerWord(w) ==
    CASE w = "Mixer"  -> "mixer"
      [] w = "Device" -> "device"
      [] w = "MCI"    -> "mci"
      [] OTHER        -> w

Lower(msg) == [i \in DOMAIN msg |-> LowerWord(msg[i])]

----------------------------------------------------------------------------
(* Files.  header is the 12 bytes read by _verify_audio_format, in three   *)
(* groups of four bytes.  exists is what Path.exists() does: "yes", "no",  *)
(* or "error" when Path()/exists() raises.  readable is whether open(.,    *)
(* 'rb') succeeds.  rate is the sample rate field of the fmt chunk, which  *)
(* wavfile.read returns unchecked.                                         *)

WavGood   == [exists |-> "yes", readable |-> TRUE, suffix |-> ".wav", size |-> 1000,
              header |-> <<"RIFF", "size", "WAVE">>, rate |-> 44100]
WavSmall  == [exists |-> "yes", readable |-> TRUE, suffix |-> ".wav", size |-> 60,
              header |-> <<"RIFF", "size", "WAVE">>, rate |-> 44100]
WavRateZero == [exists |-> "yes", readable |-> TRUE, suffix |-> ".wav", size |-> 1000,
              header |-> <<"RIFF", "size", "WAVE">>, rate |-> 0]
WavJunk   == [exists |-> "yes", readable |-> TRUE, suffix |-> ".wav", size |-> 1000,
              header |-> <<"junk", "junk", "junk">>, rate |-> 0]
Mp3Good   == [exists |-> "yes", readable |-> TRUE, suffix |-> ".mp3", size |-> 1000,
              header |-> <<"ID3v", "junk", "junk">>, rate |-> 0]
Missing   == [exists |-> "no", readable |-> FALSE, suffix |-> ".wav", size |-> 0,
              header |-> <<>>, rate |-> 0]
Unstatable == [exists |-> "error", readable |-> FALSE, suffix |-> ".wav", size |-> 0,
              header |-> <<>>, rate |-> 0]

Files == {WavGood, WavSmall, WavRateZero, WavJunk, Mp3Good, Missing, Unstatable}

\* scipy.io.wavfile.read parses the content, not the name: RIFF....WAVE
ReadableWav(f) ==
    /\ f.readable
    /\ Len(f.header) = 3
    /\ f.header[1] = "RIFF"
    /\ f.header[3] = "WAVE"

----------------------------------------------------------------------------
(* _verify_audio_format *)

MinFileSize == 100

\* mutant of SupportedFormats: every extension is accepted
SupportedFormats_Any ==
    {".wav", ".mp3", ".ogg", ".m4a", ".flac", ".aac", ".txt", ""}

SupportedFormats == {".wav", ".mp3", ".ogg", ".m4a", ".flac"}

\* file_path.suffix.lower()
SuffixLower(s) ==
    CASE s = ".WAV" -> ".wav"
      [] s = ".MP3" -> ".mp3"
      [] s = ".AAC" -> ".aac"
      [] OTHER      -> s

\* header[:3] == b'ID3'
StartsWithID3(h) == Len(h) >= 1 /\ h[1] = "ID3v"

\* header[:2] == b'\xff\xfb'
StartsWithFrameSync(h) == Len(h) >= 1 /\ h[1] = "sync"

\* mutant of IsRiffWave: bytes 4-7 are compared too
IsRiffWave_Strict(h) ==
    Len(h) = 3 /\ h[1] = "RIFF" /\ h[2] = "size" /\ h[3] = "WAVE"

\* header[:4] == b'RIFF' and header[8:12] == b'WAVE'
IsRiffWave(h) == Len(h) = 3 /\ h[1] = "RIFF" /\ h[3] = "WAVE"

\* mutant of TooSmall: the size check is left out
TooSmall_Never(f) == FALSE

\* format_info["size_bytes"] < 100
TooSmall(f) == f.size < MinFileSize

\* the dict of the outer except: file_path.stat() raised
ValidationFailed ==
    [valid |-> FALSE, format |-> "", size_bytes |-> 0,
     recommendations |-> <<"File validation failed">>]

VerifyAudioFormat(f) ==
    LET fmt == SuffixLower(f.suffix)
        info(v, recs) == [valid |-> v, format |-> fmt, size_bytes |-> f.size,
                          recommendations |-> recs]
    IN  IF f.exists # "yes"
          THEN ValidationFailed
        ELSE IF fmt \notin SupportedFormats
          THEN info(FALSE, <<"Unsupported format. Convert to WAV for best compatibility.">>)
        ELSE IF TooSmall(f)
          THEN info(FALSE, <<"File too small, may be corrupted or empty.">>)
        ELSE IF ~f.readable
          THEN info(FALSE, <<"Could not read file header">>)
        ELSE IF fmt = ".wav"
          THEN IF IsRiffWave(f.header)
                 THEN info(TRUE, <<>>)
                 ELSE info(FALSE, <<"Invalid WAV file header.">>)
        ELSE IF fmt = ".mp3"
          THEN IF StartsWithID3(f.header) \/ StartsWithFrameSync(f.header)
                 THEN info(TRUE, <<>>)
                 ELSE info(FALSE, <<"Invalid MP3 file header.">>)
        ELSE info(TRUE, <<>>)

\* the value of format_check before the pre-flight ran (and off Windows)
NoFormatCheck == [valid |-> TRUE, format |-> "", size_bytes |-> 0,
                  recommendations |-> <<>>]

----------------------------------------------------------------------------
(* _handle_windows_mci_error *)

MciSolutions(code) ==
    CASE code = "263" ->
           [description |-> "The specified device is not open or is not recognized by MCI",
            solutions |-> <<"Update audio drivers",
                            "Try running as administrator",
                            "Use alternative audio library (sounddevice/pygame)",
                            "Check Windows audio service is running">>]
      [] code = "259" ->
           [description |-> "The driver cannot recognize the specified command parameter",
            solutions |-> <<"Convert audio to WAV format",
                            "Check audio file is not corrupted",
                            "Try different audio library">>]
      [] code = "277" ->
           [description |-> "The file format is invalid",
            solutions |-> <<"Convert to WAV format",
                            "Check file is not corrupted",
                            "Use pydub for format conversion">>]

\* The keys of mci_solutions, in the order the loop of line 351 meets them.
\* mutant of MciCodes: 259 is scanned before 263
MciCodes_Reordered == <<"259", "263", "277">>

MciCodes == <<"263", "259", "277">>

\* mutant of HandleWindowsMciError: the table entry is consumed by the first
\* call that uses it
HandleWindowsMciError_Consuming(msg) ==
    IF msg \in DOMAIN mci_returned /\ mci_returned[msg] = {}
         /\ \E i \in DOMAIN MciCodes : Contains(msg, MciCodes[i])
      THEN LET code == IF Contains(msg, "263") THEN "263"
                       ELSE IF Contains(msg, "259") THEN "259" ELSE "277"
           IN  [error_type  |-> "MCI Error",
                error_code  |-> code,
                description |-> MciSolutions(code).description,
                solutions   |-> MciSolutions(code).solutions]
      ELSE [error_type  |-> "Unknown MCI Error",
            error_code  |-> "",
            description |-> "raw error message",
            solutions   |-> <<"Try alternative audio library",
                              "Check audio drivers",
                              "Convert to WAV format">>]

HandleWindowsMciError(msg) ==
    LET hits == {i \in DOMAIN MciCodes : Contains(msg, MciCodes[i])}
    IN  IF hits # {}
          THEN LET first == CHOOSE i \in hits : \A j \in hits : i <= j
                   code  == MciCodes[first]
               IN  [error_type  |-> "MCI Error",
                    error_code  |-> code,
                    description |-> MciSolutions(code).description,
                    solutions   |-> MciSolutions(code).solutions]
          ELSE [error_type  |-> "Unknown MCI Error",
                error_code  |-> "",
                description |-> "raw error message",
                solutions   |-> <<"Try alternative audio library",
                                  "Check audio drivers",
                                  "Convert to WAV format">>]

\* the condition under which each except block calls _handle_windows_mci_error
ClassifiesError(b, msg) ==
    /\ is_windows
    /\ CASE b = "sounddevice" ->
              Contains(msg, "263") \/ Contains(msg, "MCI") \/ Contains(Lower(msg), "device")
         [] b = "pygame" ->
              Contains(msg, "263") \/ Contains(msg, "MCI") \/ Contains(Lower(msg), "mixer")
         [] b = "pydub" ->
              Contains(msg, "263") \/ Contains(msg, "MCI")
         [] OTHER -> FALSE

----------------------------------------------------------------------------
(* Values returned by play_audio_file and _windows_winsound_fallback.  A   *)
(* Python dict is a record of all the keys the code uses plus keys, the    *)
(* set of keys the dict really holds.                                      *)

NoLibraries == [b \in Libraries |-> FALSE]

NoDevices == [available_devices |-> <<>>, winsound_available |-> FALSE]

Dict(success, keys, error, method, recs, libs, devs) ==
    [success |-> success, keys |-> keys, error |-> error, method |-> method,
     recommendations |-> recs, available_libraries |-> libs,
     windows_devices |-> devs]

NoResult == Dict(FALSE, {}, "", "", <<>>, NoLibraries, NoDevices)

FileNotFound ==
    Dict(FALSE, {"success", "error"}, "File not found", "", <<>>,
         NoLibraries, NoDevices)

\* the dict of the outer "except Exception" (lines 659-665)
\* mutant of UnexpectedError: the exception leaves the call, nothing is returned
UnexpectedError_Propagated == Dict(FALSE, {}, "str(e)", "", <<>>, NoLibraries, NoDevices)

UnexpectedError ==
    Dict(FALSE, {"success", "error", "file_path"}, "str(e)", "", <<>>,
         NoLibraries, NoDevices)

NoDevicesDetected ==
    Dict(FALSE, {"success", "error", "recommendations"},
         "No Windows audio devices detected", "",
         <<"Check audio drivers are installed",
           "Verify Windows audio service is running",
           "Try running as administrator">>,
         NoLibraries, NoDevices)

Playing(b) ==
    Dict(TRUE,
         IF b = "sounddevice"
           THEN {"success", "message", "method", "file_path", "sample_rate",
                 "duration_seconds"}
           ELSE {"success", "message", "method", "file_path"},
         "", b, <<>>, NoLibraries, NoDevices)

GenericRecommendations ==
    <<"Install missing audio libraries: pip install pygame sounddevice pydub simpleaudio scipy",
      "Check if audio file format is supported (WAV recommended)",
      "Verify system audio is working with other applications">>

WindowsRecommendations ==
    <<"Try running as administrator",
      "Update Windows audio drivers",
      "Check Windows Audio service is running",
      "Convert audio file to WAV format for better compatibility",
      "Restart Windows Audio service: services.msc -> Windows Audio -> Restart">>

\* mutant of ErrorResponse: only the error string is returned
ErrorResponse_Bare ==
    Dict(FALSE, {"success", "error"}, "All audio playback methods failed", "",
         <<>>, NoLibraries, NoDevices)

ErrorResponse ==
    IF is_windows
      THEN Dict(FALSE,
                {"success", "error", "file_path", "available_libraries",
                 "recommendations", "windows_devices"},
                "All audio playback methods failed", "",
                GenericRecommendations \o WindowsRecommendations,
                audio_libraries, windows_audio_devices)
      ELSE Dict(FALSE,
                {"success", "error", "file_path", "available_libraries",
                 "recommendations"},
                "All audio playback methods failed", "",
                GenericRecommendations, audio_libraries, NoDevices)

\* winsound_result: the dict of _windows_winsound_fallback
NoWinsoundResult == [success |-> FALSE, keys |-> {}, error |-> "", method |-> ""]

WinsoundRejectedDict ==
    [success |-> FALSE, keys |-> {"success", "error", "recommendation"},
     error |-> "winsound only supports WAV files", method |-> ""]

WinsoundFailedDict ==
    [success |-> FALSE, keys |-> {"success", "error"},
     error |-> "winsound error", method |-> ""]

WinsoundPlayingDict ==
    [success |-> TRUE, keys |-> {"success", "message", "method", "file_path"},
     error |-> "", method |-> "winsound"]

----------------------------------------------------------------------------
(* State after PurePythonAudioHandler.__init__                             *)

NoTasks == [b \in AllBackends |-> "none"]

\* device lists _detect_windows_audio_devices can build
DeviceLists == {<<>>, <<0>>}

\* main() is not running
NoArgs == [action |-> "", has_file |-> FALSE, file |-> Missing]

NoCommandLine ==
    /\ cli_pc = "none"
    /\ cli_args = NoArgs
    /\ exit_code = 0

\* no helper method has been called directly
NoUnitCall ==
    /\ op = "none"
    /\ arg = <<>>
    /\ ret = <<>>
    /\ mci_returned = [msg \in ClassifierMsgs |-> {}]

\* test_audio_system has not been called
NoDiagnostics ==
    [success |-> FALSE, keys |-> {}, library_tests |-> [b \in Libraries |-> ""],
     recommendations |-> <<>>]

\* host facts are consulted by __init__ only
NoHostFacts == [sounddevice |-> "", numpy |-> "", query |-> ""]

\* the keys of the dict _check_windows_audio_drivers builds on Windows
DriverStatusKeys ==
    {"compatible", "audio_service_running", "drivers_detected", "recommendations"}

\* _windows_driver_status off Windows, and before the check ran
NoDriverStatus ==
    [keys |-> {}, compatible |-> FALSE, audio_service_running |-> FALSE,
     drivers_detected |-> FALSE, recommendations |-> <<>>]

\* the threads that call play_audio_file at the same time
Callers == 1..MaxCallers

\* only one handler has been constructed
NoSnapshot == [keys |-> {}]

\* no play_audio_file and no test_audio_system call has been made
NoCallYet ==
    /\ mixer_init = FALSE
    /\ pc = "idle"
    /\ file = Missing
    /\ format_check = NoFormatCheck
    /\ attempts = <<>>
    /\ failed = {}
    /\ tasks = NoTasks
    /\ sample_rate = 0
    /\ classified = {}
    /\ log = {}
    /\ winsound_result = NoWinsoundResult
    /\ result = NoResult
    /\ ncalls = 0
    /\ diag = NoDiagnostics
    /\ diag_checked = {}
    /\ diag_quit_mixer = FALSE
    /\ callers = [c \in Callers |-> "idle"]
    /\ reinitialised = FALSE
    /\ import_raised = {}
    /\ speech_pc = "none"
    /\ playback_file = "none"
    /\ temp_file = "absent"
    /\ delayed_cleanup = "none"
    /\ slept = 0

\* the platform and the availability and device parts of the snapshot
HostSnapshot ==
    /\ is_windows \in BOOLEAN
    /\ scipy_installed \in BOOLEAN
    /\ audio_libraries \in [Libraries -> BOOLEAN]
    /\ windows_audio_devices \in
         [available_devices : DeviceLists, winsound_available : BOOLEAN]
    \* off Windows _windows_audio_devices is the empty dict
    /\ ~is_windows => windows_audio_devices = NoDevices
    \* on Windows sounddevice is marked available only with an output device,
    \* and the device list is built from the same query
    /\ (is_windows /\ audio_libraries["sounddevice"])
          => windows_audio_devices.available_devices # <<>>

\* the handler as __init__ leaves it, before any call
Constructed ==
    /\ HostSnapshot
    /\ NoCallYet
    /\ probe_pc = "constructed"
    /\ host = NoHostFacts
    /\ first_snapshot = NoSnapshot
    /\ driver_status = NoDriverStatus

Init ==
    /\ Constructed
    /\ NoUnitCall
    /\ NoCommandLine

\* one constructed handler, for the methods that read none of its snapshot
PlainHandler ==
    /\ Constructed
    /\ ~is_windows
    /\ scipy_installed
    /\ audio_libraries = [b \in Libraries |-> TRUE]

----------------------------------------------------------------------------
(* play_audio_file: entry and Windows pre-flight                           *)

\* a new call forgets the previous call's bookkeeping
FreshCall ==
    /\ format_check' = NoFormatCheck
    /\ attempts' = <<>>
    /\ failed' = {}
    /\ tasks' = NoTasks
    /\ sample_rate' = 0
    /\ classified' = {}
    /\ log' = {}
    /\ winsound_result' = NoWinsoundResult

\* play_audio_file(file_path) up to the existence check
PlayAudioFile(f) ==
    /\ pc \in {"idle", "returned"}
    /\ ncalls < MaxCalls
    /\ ncalls' = ncalls + 1
    /\ file' = f
    /\ FreshCall
    /\ IF f.exists = "error"
         THEN pc' = "returned" /\ result' = UnexpectedError
       ELSE IF f.exists = "no"
         THEN pc' = "returned" /\ result' = FileNotFound
       ELSE pc' = "preflight" /\ result' = NoResult
    /\ UNCHANGED <<otherVars, hostVars, mixer_init>>

\* "if not available_devices and not winsound_available"
NoWorkingDevices ==
    /\ windows_audio_devices.available_devices = <<>>
    /\ ~windows_audio_devices.winsound_available

\* mutant of PreflightBlocks: an invalid report stops the call
PreflightBlocks_Strict(report) == NoWorkingDevices \/ ~report.valid

\* whether the pre-flight returns the failure, given the validator's report
PreflightBlocks(report) == NoWorkingDevices

\* the "if self.is_windows:" block before Method 1
Preflight ==
    /\ pc = "preflight"
    /\ IF is_windows
         THEN LET report == VerifyAudioFormat(file)
              IN  /\ format_check' = report
                  /\ log' = IF report.valid THEN log
                            ELSE log \cup {<<"preflight", "format validation failed">>}
                  /\ IF PreflightBlocks(report)
                       THEN pc' = "returned" /\ result' = NoDevicesDetected
                       ELSE pc' = "sounddevice" /\ UNCHANGED result
         ELSE /\ pc' = "sounddevice"
              /\ UNCHANGED <<format_check, log, result>>
    /\ UNCHANGED <<otherVars, hostVars, mixer_init, file, attempts, failed, tasks,
                   sample_rate, classified, winsound_result, ncalls>>

----------------------------------------------------------------------------
(* play_audio_file: the four library backends                              *)

\* mutant of Available: the availability flag is not consulted
Available_Ignored(b) == TRUE

\* self._audio_libraries.get(b, False)
Available(b) == audio_libraries[b]

\* mutant of After: Method 3 is tried before Method 2
After_Swapped(b) ==
    CASE b = "sounddevice" -> "simpleaudio"
      [] b = "simpleaudio" -> "pygame"
      [] b = "pygame"      -> "pydub"
      [] b = "pydub"       -> "winsound"

\* the label of the code that follows backend b's block
After(b) ==
    CASE b = "sounddevice" -> "pygame"
      [] b = "pygame"      -> "simpleaudio"
      [] b = "simpleaudio" -> "pydub"
      [] b = "pydub"       -> "winsound"

\* mutant of SkipBackend: a block is left whether or not b is available
SkipBackend_Unconditional(b) ==
    /\ pc = b
    /\ pc' = After(b)
    /\ UNCHANGED <<otherVars, hostVars, mixer_init, file, format_check, attempts, failed,
                   tasks, sample_rate, classified, log, winsound_result,
                   result, ncalls>>

\* "if self._audio_libraries.get(b, False)" is false: the block is not entered
SkipBackend(b) ==
    /\ pc = b
    /\ ~Available(b)
    /\ pc' = After(b)
    /\ UNCHANGED <<otherVars, hostVars, mixer_init, file, format_check, attempts, failed,
                   tasks, sample_rate, classified, log, winsound_result,
                   result, ncalls>>

\* an except block of backend b: log, classify on Windows, fall through
ExceptFrom(b, msg, lines) ==
    /\ failed' = failed \cup {b}
    /\ IF ClassifiesError(b, msg)
         THEN /\ classified' = classified \cup {<<b, msg>>}
              /\ log' = lines \cup {<<b, "error">>,
                                    <<b, HandleWindowsMciError(msg).description>>}
         ELSE /\ classified' = classified
              /\ log' = lines \cup {<<b, "error">>}
    /\ pc' = After(b)

Except(b, msg) == ExceptFrom(b, msg, log)

\* thread = threading.Thread(target=..., daemon=True); thread.start()
StartThread(b) == tasks' = [tasks EXCEPT ![b] = "running"]

\* Method 1, "except ImportError": scipy is not installed
SoundDeviceNoScipy ==
    /\ pc = "sounddevice"
    /\ Available("sounddevice")
    /\ ~scipy_installed
    /\ attempts' = Append(attempts, "sounddevice")
    /\ failed' = failed \cup {"sounddevice"}
    /\ log' = log \cup {<<"sounddevice", "scipy not available">>}
    /\ pc' = "pygame"
    /\ UNCHANGED <<otherVars, hostVars, mixer_init, file, format_check, tasks,
                   sample_rate, classified, winsound_result, result, ncalls>>

\* Method 1, "except Exception": wavfile.read, astype or thread.start raises
SoundDeviceError(msg) ==
    /\ pc = "sounddevice"
    /\ Available("sounddevice")
    /\ scipy_installed
    /\ attempts' = Append(attempts, "sounddevice")
    /\ Except("sounddevice", msg)
    /\ UNCHANGED <<otherVars, hostVars, mixer_init, file, format_check, tasks,
                   sample_rate, winsound_result, result, ncalls>>

\* Method 1: the file is read and the thread is started
SoundDeviceStart ==
    /\ pc = "sounddevice"
    /\ Available("sounddevice")
    /\ scipy_installed
    /\ ReadableWav(file)
    /\ attempts' = Append(attempts, "sounddevice")
    /\ sample_rate' = file.rate
    /\ StartThread("sounddevice")
    /\ pc' = "sounddevice_settle"
    /\ UNCHANGED <<otherVars, hostVars, mixer_init, file, format_check, failed,
                   classified, log, winsound_result, result, ncalls>>

\* Method 1 after time.sleep(0.2): the return statement evaluates
\* len(audio_data) / sample_rate, which raises ZeroDivisionError inside the
\* try block when the file's sample rate is 0
SoundDeviceReturn ==
    /\ pc = "sounddevice_settle"
    /\ LET lines == log \cup {<<"sounddevice", "playback started">>}
       IN  IF sample_rate = 0
             THEN /\ ExceptFrom("sounddevice", MsgZeroDiv, lines)
                  /\ UNCHANGED result
             ELSE /\ result' = Playing("sounddevice")
                  /\ pc' = "returned"
                  /\ log' = lines
                  /\ UNCHANGED <<failed, classified>>
    /\ UNCHANGED <<otherVars, hostVars, mixer_init, file, format_check, attempts, tasks,
                   sample_rate, winsound_result, ncalls>>

\* Method 2: "if not pygame.mixer.get_init()"
PygameCheck ==
    /\ pc = "pygame"
    /\ Available("pygame")
    /\ attempts' = Append(attempts, "pygame")
    /\ pc' = IF mixer_init THEN "pygame_thread" ELSE "pygame_init"
    /\ UNCHANGED <<otherVars, hostVars, mixer_init, file, format_check, failed, tasks,
                   sample_rate, classified, log, winsound_result, result,
                   ncalls>>

\* Method 2: pygame.mixer.pre_init(...); pygame.mixer.init()
PygameInit ==
    /\ pc = "pygame_init"
    /\ mixer_init' = TRUE
    /\ pc' = "pygame_thread"
    /\ UNCHANGED <<otherVars, hostVars, file, format_check, attempts, failed, tasks,
                   sample_rate, classified, log, winsound_result, result,
                   ncalls>>

\* Method 2, "except Exception": pygame.mixer.init() raises pygame.error
PygameInitError(msg) ==
    /\ pc = "pygame_init"
    /\ Except("pygame", msg)
    /\ UNCHANGED <<otherVars, hostVars, mixer_init, file, format_check, attempts, tasks,
                   sample_rate, winsound_result, result, ncalls>>

\* Method 2: the thread is started
PygameStart ==
    /\ pc = "pygame_thread"
    /\ StartThread("pygame")
    /\ pc' = "pygame_settle"
    /\ UNCHANGED <<otherVars, hostVars, mixer_init, file, format_check, attempts, failed,
                   sample_rate, classified, log, winsound_result, result,
                   ncalls>>

\* Method 2, "except Exception": thread.start() raises
PygameStartError(msg) ==
    /\ pc = "pygame_thread"
    /\ Except("pygame", msg)
    /\ UNCHANGED <<otherVars, hostVars, mixer_init, file, format_check, attempts, tasks,
                   sample_rate, winsound_result, result, ncalls>>

\* mutant of ReturnPlaying: the call joins the thread before it returns
ReturnPlaying_Joined(b) ==
    /\ tasks[b] \in {"completed", "errored"}
    /\ result' = Playing(b)
    /\ log' = log \cup {<<b, "playback started">>}
    /\ pc' = "returned"

\* Methods 2-4 after time.sleep(0.2): log "playback started" and return
ReturnPlaying(b) ==
    /\ result' = Playing(b)
    /\ log' = log \cup {<<b, "playback started">>}
    /\ pc' = "returned"

PygameReturn ==
    /\ pc = "pygame_settle"
    /\ ReturnPlaying("pygame")
    /\ UNCHANGED <<otherVars, hostVars, mixer_init, file, format_check, attempts, failed,
                   tasks, sample_rate, classified, winsound_result, ncalls>>

\* Method 3: the thread is started (the file is opened inside the thread)
SimpleAudioStart ==
    /\ pc = "simpleaudio"
    /\ Available("simpleaudio")
    /\ attempts' = Append(attempts, "simpleaudio")
    /\ StartThread("simpleaudio")
    /\ pc' = "simpleaudio_settle"
    /\ UNCHANGED <<otherVars, hostVars, mixer_init, file, format_check, failed,
                   sample_rate, classified, log, winsound_result, result,
                   ncalls>>

\* Method 3, "except Exception": thread.start() raises
SimpleAudioError(msg) ==
    /\ pc = "simpleaudio"
    /\ Available("simpleaudio")
    /\ attempts' = Append(attempts, "simpleaudio")
    /\ Except("simpleaudio", msg)
    /\ UNCHANGED <<otherVars, hostVars, mixer_init, file, format_check, tasks,
                   sample_rate, winsound_result, result, ncalls>>

SimpleAudioReturn ==
    /\ pc = "simpleaudio_settle"
    /\ ReturnPlaying("simpleaudio")
    /\ UNCHANGED <<otherVars, hostVars, mixer_init, file, format_check, attempts, failed,
                   tasks, sample_rate, classified, winsound_result, ncalls>>

\* Method 3 or 4, "except Exception": the import statement of the block raises
ImportRaises(b, msg) ==
    /\ pc = b
    /\ Available(b)
    /\ attempts' = Append(attempts, b)
    /\ Except(b, msg)
    /\ import_raised' = import_raised \cup {b}
    /\ UNCHANGED <<unitVars, diagVars, probeVars, cliVars, callers, reinitialised,
                   speechVars, hostVars, mixer_init, file, format_check, tasks,
                   sample_rate, winsound_result, result, ncalls>>

\* Method 4: the thread is started (the file is decoded inside the thread)
PydubStart ==
    /\ pc = "pydub"
    /\ Available("pydub")
    /\ attempts' = Append(attempts, "pydub")
    /\ StartThread("pydub")
    /\ pc' = "pydub_settle"
    /\ UNCHANGED <<otherVars, hostVars, mixer_init, file, format_check, failed,
                   sample_rate, classified, log, winsound_result, result,
                   ncalls>>

\* Method 4, "except Exception": thread.start() raises
PydubError(msg) ==
    /\ pc = "pydub"
    /\ Available("pydub")
    /\ attempts' = Append(attempts, "pydub")
    /\ Except("pydub", msg)
    /\ UNCHANGED <<otherVars, hostVars, mixer_init, file, format_check, tasks,
                   sample_rate, winsound_result, result, ncalls>>

PydubReturn ==
    /\ pc = "pydub_settle"
    /\ ReturnPlaying("pydub")
    /\ UNCHANGED <<otherVars, hostVars, mixer_init, file, format_check, attempts, failed,
                   tasks, sample_rate, classified, winsound_result, ncalls>>

----------------------------------------------------------------------------
(* play_audio_file: winsound emergency fallback and exhaustion             *)

\* mutant of WinsoundSkip: the emergency fallback is never tried
WinsoundSkip_Always ==
    /\ pc = "winsound"
    /\ pc' = "exhausted"
    /\ UNCHANGED <<otherVars, hostVars, mixer_init, file, format_check, attempts, failed,
                   tasks, sample_rate, classified, log, winsound_result,
                   result, ncalls>>

\* "if self.is_windows and winsound_available" is false
WinsoundSkip ==
    /\ pc = "winsound"
    /\ ~(is_windows /\ windows_audio_devices.winsound_available)
    /\ pc' = "exhausted"
    /\ UNCHANGED <<otherVars, hostVars, mixer_init, file, format_check, attempts, failed,
                   tasks, sample_rate, classified, log, winsound_result,
                   result, ncalls>>

\* mutant of WinsoundOnlyWav: the suffix is not checked
WinsoundOnlyWav_Any(f) == TRUE

\* _windows_winsound_fallback: "if file_path.suffix.lower() != '.wav'"
WinsoundOnlyWav(f) == SuffixLower(f.suffix) = ".wav"

\* _windows_winsound_fallback returns the "only supports WAV files" dict
WinsoundReject ==
    /\ pc = "winsound"
    /\ is_windows /\ windows_audio_devices.winsound_available
    /\ ~WinsoundOnlyWav(file)
    /\ attempts' = Append(attempts, "winsound")
    /\ winsound_result' = WinsoundRejectedDict
    /\ log' = log \cup {<<"winsound", "fallback failed">>}
    /\ pc' = "exhausted"
    /\ UNCHANGED <<otherVars, hostVars, mixer_init, file, format_check, failed, tasks,
                   sample_rate, classified, result, ncalls>>

\* _windows_winsound_fallback starts its thread
WinsoundStart ==
    /\ pc = "winsound"
    /\ is_windows /\ windows_audio_devices.winsound_available
    /\ WinsoundOnlyWav(file)
    /\ attempts' = Append(attempts, "winsound")
    /\ StartThread("winsound")
    /\ pc' = "winsound_settle"
    /\ UNCHANGED <<otherVars, hostVars, mixer_init, file, format_check, failed,
                   sample_rate, classified, log, winsound_result, result,
                   ncalls>>

\* _windows_winsound_fallback, "except Exception": thread.start() raises
WinsoundError ==
    /\ pc = "winsound"
    /\ is_windows /\ windows_audio_devices.winsound_available
    /\ WinsoundOnlyWav(file)
    /\ attempts' = Append(attempts, "winsound")
    /\ failed' = failed \cup {"winsound"}
    /\ winsound_result' = WinsoundFailedDict
    /\ log' = log \cup {<<"winsound", "fallback failed">>}
    /\ pc' = "exhausted"
    /\ UNCHANGED <<otherVars, hostVars, mixer_init, file, format_check, tasks,
                   sample_rate, classified, result, ncalls>>

\* mutant of WinsoundReturn: the fallback waits for its thread and reports a failed PlaySound
WinsoundReturn_Joined ==
    /\ pc = "winsound_settle"
    /\ tasks["winsound"] # "running"
    /\ IF tasks["winsound"] = "errored"
         THEN /\ winsound_result' = WinsoundFailedDict
              /\ result' = result
              /\ pc' = "exhausted"
         ELSE /\ winsound_result' = WinsoundPlayingDict
              /\ result' = Playing("winsound")
              /\ pc' = "returned"
    /\ UNCHANGED <<otherVars, hostVars, mixer_init, file, format_check, attempts, failed,
                   tasks, sample_rate, classified, log, ncalls>>

\* _windows_winsound_fallback after time.sleep(0.1); "return winsound_result"
WinsoundReturn ==
    /\ pc = "winsound_settle"
    /\ winsound_result' = WinsoundPlayingDict
    /\ result' = Playing("winsound")
    /\ pc' = "returned"
    /\ UNCHANGED <<otherVars, hostVars, mixer_init, file, format_check, attempts, failed,
                   tasks, sample_rate, classified, log, ncalls>>

\* "If all methods fail": build and return error_response
Exhausted ==
    /\ pc = "exhausted"
    /\ log' = log \cup {<<"play_audio_file", "All audio libraries failed">>}
    /\ result' = ErrorResponse
    /\ pc' = "returned"
    /\ UNCHANGED <<otherVars, hostVars, mixer_init, file, format_check, attempts, failed,
                   tasks, sample_rate, classified, winsound_result, ncalls>>

----------------------------------------------------------------------------
(* The daemon threads: sounddevice_play, pygame_play, simpleaudio_play,    *)
(* pydub_play, winsound_play.  Each renders inside try/except and only     *)
(* logs.                                                                   *)

\* the target function runs to its "playback completed" log line
TaskComplete(b) ==
    /\ tasks[b] = "running"
    /\ tasks' = [tasks EXCEPT ![b] = "completed"]
    /\ log' = log \cup {<<b, "playback completed">>}
    /\ UNCHANGED <<otherVars, hostVars, mixer_init, pc, file, format_check, attempts,
                   failed, sample_rate, classified, winsound_result, result,
                   ncalls>>

\* mutant of TaskError: a rendering failure sends the call on to the next backend
TaskError_FallsBack(b) ==
    /\ tasks[b] = "running"
    /\ tasks' = [tasks EXCEPT ![b] = "errored"]
    /\ log' = log \cup {<<b, "playback error">>}
    /\ pc' = IF b \in Libraries THEN After(b) ELSE "exhausted"
    /\ result' = NoResult
    /\ UNCHANGED <<otherVars, hostVars, mixer_init, file, format_check, attempts,
                   failed, sample_rate, classified, winsound_result, ncalls>>

\* the target function raises: "except Exception: logger.error(...)"
TaskError(b) ==
    /\ tasks[b] = "running"
    /\ tasks' = [tasks EXCEPT ![b] = "errored"]
    /\ log' = log \cup {<<b, "playback error">>}
    /\ UNCHANGED <<otherVars, hostVars, mixer_init, pc, file, format_check, attempts,
                   failed, sample_rate, classified, winsound_result, result,
                   ncalls>>

----------------------------------------------------------------------------
(* test_audio_system.  Each test block either runs through or raises; the  *)
(* pydub and simpleaudio blocks only repeat an import the constructor has  *)
(* already made, so they run through.                                      *)

\* mutant of Tested: the test block is entered for every library
Tested_Always(b) == TRUE

\* "if available:" in the loop over self._audio_libraries.items()
Tested(b) == audio_libraries[b]

\* what the test block of library b can do
LivenessResults(b) ==
    IF b \in {"pygame", "sounddevice"} THEN {"pass", "fail"} ELSE {"pass"}

\* the ways one call can go: library -> "pass", "fail" or "skip"
DiagnosticRuns ==
    {run \in [Libraries -> {"pass", "fail", "skip"}] :
        \A b \in Libraries :
            IF Tested(b) THEN run[b] \in LivenessResults(b)
                         ELSE run[b] = "skip"}

\* results["library_tests"][lib_name]
TestMessage(b, outcome) ==
    CASE outcome = "skip" -> "Not installed"
      [] outcome = "fail" -> "Error"
      [] b = "pygame"      -> "Initialized successfully"
      [] b = "sounddevice" -> "Found audio devices"
      [] b = "pydub"       -> "Available for audio processing"
      [] OTHER             -> "Available for WAV playback"

\* mutant of NoneAvailable: the test for an empty snapshot is left out
NoneAvailable_Never == FALSE

\* "not any(self._audio_libraries.values())"
NoneAvailable == \A b \in Libraries : ~audio_libraries[b]

InstallLibraries ==
    "Install audio libraries: pip install pygame sounddevice pydub simpleaudio scipy"

InstallSoundDevice ==
    "Install sounddevice for best cross-platform support: pip install sounddevice scipy"

\* the dict test_audio_system returns
DiagnosticResults(run) ==
    [success |-> (\A b \in Libraries : run[b] # "fail") /\ ~NoneAvailable,
     keys |-> {"success", "library_tests", "recommendations"},
     library_tests |-> [b \in Libraries |-> TestMessage(b, run[b])],
     recommendations |->
         (IF NoneAvailable THEN <<InstallLibraries>> ELSE <<>>)
         \o (IF ~audio_libraries["sounddevice"] THEN <<InstallSoundDevice>>
                                                ELSE <<>>)]

\* test_audio_system(), called while no play_audio_file call is in progress.
\* The pygame block that runs through ends with pygame.mixer.quit().
\* mutant of RunDiagnostics: a library whose test failed is marked unavailable
RunDiagnostics_Remarking(run) ==
    /\ pc \in {"idle", "returned"}
    /\ run \in DiagnosticRuns
    /\ diag' = DiagnosticResults(run)
    /\ diag_checked' = {b \in Libraries : run[b] # "skip"}
    /\ mixer_init' = IF run["pygame"] = "pass" THEN FALSE ELSE mixer_init
    /\ diag_quit_mixer' = (diag_quit_mixer \/ (run["pygame"] = "pass" /\ mixer_init))
    /\ audio_libraries' =
          [b \in Libraries |-> audio_libraries[b] /\ run[b] # "fail"]
    /\ UNCHANGED <<is_windows, scipy_installed, windows_audio_devices,
                   callVars, unitVars, probeVars, cliVars, raceVars>>

RunDiagnostics(run) ==
    /\ pc \in {"idle", "returned"}
    /\ run \in DiagnosticRuns
    /\ diag' = DiagnosticResults(run)
    /\ diag_checked' = {b \in Libraries : run[b] # "skip"}
    /\ mixer_init' = IF run["pygame"] = "pass" THEN FALSE ELSE mixer_init
    /\ diag_quit_mixer' = (diag_quit_mixer \/ (run["pygame"] = "pass" /\ mixer_init))
    /\ UNCHANGED <<hostVars, callVars, unitVars, probeVars, cliVars, raceVars>>

----------------------------------------------------------------------------
(* Specification *)

Next ==
    \/ \E f \in Files : PlayAudioFile(f)
    \/ Preflight
    \/ \E b \in Libraries : SkipBackend(b)
    \/ SoundDeviceNoScipy
    \/ \E msg \in ErrMsgs : SoundDeviceError(msg)
    \/ SoundDeviceStart
    \/ SoundDeviceReturn
    \/ PygameCheck
    \/ PygameInit
    \/ \E msg \in ErrMsgs : PygameInitError(msg)
    \/ PygameStart
    \/ \E msg \in ErrMsgs : PygameStartError(msg)
    \/ PygameReturn
    \/ SimpleAudioStart
    \/ \E msg \in ErrMsgs : SimpleAudioError(msg)
    \/ SimpleAudioReturn
    \/ PydubStart
    \/ \E msg \in ErrMsgs : PydubError(msg)
    \/ PydubReturn
    \/ WinsoundSkip
    \/ WinsoundReject
    \/ WinsoundStart
    \/ WinsoundError
    \/ WinsoundReturn
    \/ Exhausted
    \/ \E b \in AllBackends : TaskComplete(b)
    \/ \E b \in AllBackends : TaskError(b)
    \/ \E run \in [Libraries -> {"pass", "fail", "skip"}] : RunDiagnostics(run)

Spec == Init /\ [][Next]_vars

\* a step of the thread that called play_audio_file: it runs the call to its
\* return statement without waiting for anything
CallStep ==
    /\ pc \notin {"idle", "returned"}
    /\ Next
    /\ pc' # pc

\* Spec with the calling thread scheduled
SpecFair == Spec /\ WF_vars(CallStep)

----------------------------------------------------------------------------
(* Vocabulary of the properties                                            *)

Range(q) == {q[i] : i \in DOMAIN q}

Last(q) == q[Len(q)]

\* how many times backend b occurs in the sequence of attempts
Count(q, b) == Cardinality({i \in DOMAIN q : q[i] = b})

\* the call has returned a success dict
Succeeded == pc = "returned" /\ result.success

\* the call has returned the "All audio playback methods failed" response
ExhaustionReported ==
    /\ pc = "returned"
    /\ <<"play_audio_file", "All audio libraries failed">> \in log

\* the labels at which the call is inside backend b's block
Inside(b) ==
    CASE b = "sounddevice" -> {"sounddevice_settle"}
      [] b = "pygame"      -> {"pygame_init", "pygame_thread", "pygame_settle"}
      [] b = "simpleaudio" -> {"simpleaudio_settle"}
      [] b = "pydub"       -> {"pydub_settle"}
      [] b = "winsound"    -> {"winsound_settle"}

----------------------------------------------------------------------------
(* Properties of play_audio_file                                           *)

\* C1: the library backends are attempted one at a time in the order
\* sounddevice, pygame, simpleaudio, pydub: every attempt but the last has
\* failed (its try block raised), a backend is attempted only when every
\* earlier one was unavailable or failed, and a success names the backend
\* attempted last, so nothing after it was attempted.
C1_PriorityOrder ==
    /\ \A i \in DOMAIN attempts :
         /\ i < Len(attempts) => attempts[i] \in failed
         /\ attempts[i] \in Libraries =>
              /\ \A j \in 1..(i - 1) :
                   /\ attempts[j] \in Libraries
                   /\ Rank(attempts[j]) < Rank(attempts[i])
              /\ \A e \in Libraries :
                   Rank(e) < Rank(attempts[i]) =>
                     (~audio_libraries[e] \/ e \in failed)
    /\ Succeeded =>
         /\ attempts # <<>>
         /\ result.method = Last(attempts)
         /\ result.method \notin failed

\* C1 witness: sounddevice failed, pygame started and is named; simpleaudio,
\* though available, was never attempted
C1_Witness ==
    /\ Succeeded
    /\ attempts = <<"sounddevice", "pygame">>
    /\ "sounddevice" \in failed
    /\ result.method = "pygame"
    /\ audio_libraries["simpleaudio"]

\* C2: a backend the snapshot marks unavailable is never invoked: it is not
\* among the attempts, its block is never entered, it owns no thread and it
\* produces no log line or classified error.
C2_UnavailableNeverInvoked ==
    \A b \in Libraries :
      ~audio_libraries[b] =>
        /\ b \notin Range(attempts)
        /\ b \notin failed
        /\ pc \notin Inside(b)
        /\ tasks[b] = "none"
        /\ \A l \in log : l[1] # b
        /\ \A c \in classified : c[1] # b

\* C2 witness: two unavailable backends were skipped and the third one plays
C2_Witness ==
    /\ Succeeded
    /\ ~audio_libraries["sounddevice"]
    /\ ~audio_libraries["pygame"]
    /\ attempts = <<"simpleaudio">>
    /\ result.method = "simpleaudio"

C4_FailureOnlyOnExhaustion ==
    (pc = "returned" /\ file.exists = "yes" /\ ~result.success) =>
      \A b \in Libraries :
        audio_libraries[b] => (b \in Range(attempts) /\ b \in failed)

\* C5: winsound is attempted at most once, only on Windows with winsound
\* marked available, only after every library backend was unavailable or
\* failed, and there exactly once before exhaustion is reported.
C5_EmergencyLastAndOnce ==
    /\ Count(attempts, "winsound") <= 1
    /\ "winsound" \in Range(attempts) =>
         /\ is_windows
         /\ windows_audio_devices.winsound_available
         /\ Last(attempts) = "winsound"
         /\ \A b \in Libraries : ~audio_libraries[b] \/ b \in failed
    /\ (ExhaustionReported /\ is_windows
          /\ windows_audio_devices.winsound_available) =>
         Count(attempts, "winsound") = 1
    /\ tasks["winsound"] # "none" => "winsound" \in Range(attempts)

\* C5 witness: a library backend failed, winsound was tried, exhaustion reported
C5_Witness ==
    /\ ExhaustionReported
    /\ Len(attempts) >= 2
    /\ Last(attempts) = "winsound"
    /\ attempts[1] \in failed

\* C6: for a file whose suffix is not .wav the winsound fallback starts no
\* thread (so PlaySound is never called), returns the rejection that
\* recommends converting, and the call ends with the exhaustion response.
C6_EmergencyOnlyWav ==
    (SuffixLower(file.suffix) # ".wav" /\ "winsound" \in Range(attempts)) =>
      /\ tasks["winsound"] = "none"
      /\ winsound_result = WinsoundRejectedDict
      /\ "recommendation" \in winsound_result.keys
      /\ pc \in {"exhausted", "returned"}
      /\ pc = "returned" =>
           (~result.success /\ result.error = "All audio playback methods failed")

\* C6 witness: an .mp3 file reached the fallback and the call returned
C6_Witness ==
    /\ file = Mp3Good
    /\ "winsound" \in Range(attempts)
    /\ ExhaustionReported

\* C7: the exhaustion response carries the availability map of the snapshot
\* and the recommendations: the generic ones, followed on Windows by the
\* Windows ones.
C7_ExhaustionIsStructured ==
    ExhaustionReported =>
      /\ ~result.success
      /\ {"error", "available_libraries", "recommendations"} \subseteq result.keys
      /\ result.available_libraries = audio_libraries
      /\ Len(result.recommendations) >= 1
      /\ result.recommendations =
           IF is_windows
             THEN GenericRecommendations \o WindowsRecommendations
             ELSE GenericRecommendations
      /\ is_windows =>
           /\ "windows_devices" \in result.keys
           /\ result.windows_devices = windows_audio_devices

\* C7 witness: exhaustion with no backend available at all, on Windows
C7_Witness ==
    /\ ExhaustionReported
    /\ is_windows
    /\ \A b \in Libraries : ~audio_libraries[b]
    /\ attempts = <<"winsound">>

\* C8 (as claimed): every failure returned carries at least one
\* recommendation.
C8_EveryFailureHasRemediation ==
    (pc = "returned" /\ ~result.success) =>
      /\ "recommendations" \in result.keys
      /\ Len(result.recommendations) >= 1

\* C9: the validator's report is advisory: the pre-flight decides the same
\* for a valid and an invalid report, an invalid report leaves exactly a
\* warning in the log, the pre-flight failure is returned exactly when no
\* device was detected, and a call with an invalid report still attempts
\* its first available backend.
C9_FormatAdvisory ==
    (is_windows /\ file.exists = "yes" /\ pc \notin {"idle", "preflight"}) =>
      /\ format_check = VerifyAudioFormat(file)
      /\ \A v \in BOOLEAN :
           PreflightBlocks([format_check EXCEPT !.valid = v])
             = PreflightBlocks(format_check)
      /\ ~format_check.valid <=>
           <<"preflight", "format validation failed">> \in log
      /\ (pc = "returned" /\ result.error = "No Windows audio devices detected")
           <=> (/\ windows_audio_devices.available_devices = <<>>
                /\ ~windows_audio_devices.winsound_available)
      /\ (/\ ~format_check.valid
          /\ pc = "returned"
          /\ result.error # "No Windows audio devices detected"
          /\ \E b \in Libraries : audio_libraries[b]) =>
            attempts # <<>>

\* C9 witness: the report was invalid and the file is playing all the same
C9_Witness ==
    /\ is_windows
    /\ Succeeded
    /\ ~format_check.valid
    /\ <<"preflight", "format validation failed">> \in log
    /\ result.method = "sounddevice"

\* C10: after the settle delay the return is taken whatever the state of
\* the thread; a success is returned only for a backend whose thread was
\* started, and the return itself does not touch the threads.
C10_ReturnDoesNotAwait ==
    /\ pc = "sounddevice_settle" => ENABLED SoundDeviceReturn
    /\ pc = "pygame_settle" => ENABLED PygameReturn
    /\ pc = "simpleaudio_settle" => ENABLED SimpleAudioReturn
    /\ pc = "pydub_settle" => ENABLED PydubReturn
    /\ pc = "winsound_settle" => ENABLED WinsoundReturn
    /\ Succeeded => tasks[result.method] # "none"

\* C10 witness: success was returned while the thread is still running
C10_Witness ==
    /\ Succeeded
    /\ result.method = "pydub"
    /\ tasks["pydub"] = "running"

\* C23: whenever the try block of one of the four library backends has
\* raised an exception during a call, the failure message was handed to the
\* classifier before the call went on to the next backend, whatever the
\* backend, the message and the platform.  (The ImportError branch of
\* sounddevice, which has no message, is left out.)
C23_EveryFailureIsClassified ==
    \A b \in failed \cap Libraries :
        ~(b = "sounddevice" /\ ~scipy_installed)
            => \E c \in classified : c[1] = b

\* the backends whose thread the current call has started
Spawned == {b \in AllBackends : tasks[b] # "none"}

\* C25: a call starts at most one thread: exactly one when it returns
\* success, none when it returns a failure; a backend whose attempt failed
\* has left no thread behind.
C25_OneTaskPerSuccessfulCall ==
    /\ Cardinality(Spawned) <= 1
    /\ pc = "returned" =>
          Cardinality(Spawned) = (IF result.success THEN 1 ELSE 0)
    /\ \A b \in failed : tasks[b] = "none"

----------------------------------------------------------------------------
(* _verify_audio_format applied on its own to any existing file.  The      *)
(* first four bytes are RIFF, ID3 + version, an MPEG frame header ff fb    *)
(* ("sync") or ff f3 ("syn3"), or something else; bytes 4-7 are the RIFF   *)
(* chunk size or anything; bytes 8-11 are WAVE or something else.  An      *)
(* empty file has no header.                                               *)

Suffixes == {".wav", ".WAV", ".mp3", ".ogg", ".m4a", ".flac", ".aac", ".txt", ""}

Sizes == {0, 99, 100, 1000}

Headers == {"RIFF", "ID3v", "sync", "syn3", "junk"} \X {"size", "junk"}
             \X {"WAVE", "junk"}

ValidatorFiles ==
    {f \in [exists : {"yes"}, readable : BOOLEAN, suffix : Suffixes,
            size : Sizes, header : Headers \cup {<<>>}, rate : {44100}] :
        f.size = 0 <=> f.header = <<>>}

InitValidator ==
    /\ PlainHandler
    /\ op = "none"
    /\ arg \in ValidatorFiles
    /\ ret = <<>>
    /\ mci_returned = [msg \in ClassifierMsgs |-> {}]
    /\ NoCommandLine

\* self._verify_audio_format(file_path)
VerifyFormat ==
    /\ op = "none"
    /\ op' = "_verify_audio_format"
    /\ ret' = VerifyAudioFormat(arg)
    /\ UNCHANGED <<arg, mci_returned, hostVars, mixer_init, callVars, cliVars, raceVars, diagVars,
                   probeVars>>

NextValidator == VerifyFormat

SpecValidator == InitValidator /\ [][NextValidator]_vars

----------------------------------------------------------------------------
(* Properties of _verify_audio_format                                      *)

Verified == op = "_verify_audio_format"

\* the first 12 bytes are RIFF, any four bytes, WAVE
RiffAnyWave(f) ==
    Len(f.header) = 3 /\ f.header[1] = "RIFF" /\ f.header[3] = "WAVE"

ConvertAdvice == "Unsupported format. Convert to WAV for best compatibility."

\* C11, as stated: every file with a .wav extension whose first 12 bytes
\* are RIFF, any four bytes, WAVE is reported valid.
C11_RiffWaveIsValid ==
    (Verified /\ arg.suffix \in {".wav", ".WAV"} /\ RiffAnyWave(arg))
        => ret.valid

\* C11, amended: every file with a .wav extension whose first 12 bytes are
\* RIFF, any four bytes, WAVE, that holds at least 100 bytes and can be
\* opened for reading, is reported valid.
C11_RiffWaveIsValidWhenLargeEnough ==
    (/\ Verified
     /\ arg.suffix \in {".wav", ".WAV"}
     /\ RiffAnyWave(arg)
     /\ arg.size >= 100
     /\ arg.readable)
        => ret.valid

\* a 100-byte .wav whose bytes 4-7 are not a chunk size was reported valid
C11_Witness ==
    /\ Verified
    /\ arg.suffix = ".wav"
    /\ arg.header = <<"RIFF", "junk", "WAVE">>
    /\ arg.size = 100
    /\ ret.valid

\* C12: every file smaller than 100 bytes is reported invalid, whatever its
\* header holds.
C12_SmallIsInvalid ==
    (Verified /\ arg.size < 100) => ~ret.valid

\* a 99-byte .wav with a correct RIFF/WAVE header was reported invalid
C12_Witness ==
    /\ Verified
    /\ arg.suffix = ".wav"
    /\ arg.readable
    /\ arg.size = 99
    /\ RiffAnyWave(arg)
    /\ ~ret.valid
    /\ ret.recommendations = <<"File too small, may be corrupted or empty.">>

\* C13: for a file whose extension is none of wav, mp3, ogg, m4a, flac the
\* validator returns a report that is not valid and recommends converting
\* the file.
C13_UnsupportedIsReported ==
    (/\ Verified
     /\ arg.suffix \notin {".wav", ".WAV", ".mp3", ".ogg", ".m4a", ".flac"})
        => /\ ~ret.valid
           /\ \E i \in DOMAIN ret.recommendations :
                  ret.recommendations[i] = ConvertAdvice

\* a well-formed, large enough .aac file was reported invalid with the advice
C13_Witness ==
    /\ Verified
    /\ arg.suffix = ".aac"
    /\ arg.size = 1000
    /\ arg.readable
    /\ ~ret.valid
    /\ ret.recommendations = <<ConvertAdvice>>

\* the first bytes are an MPEG audio frame header: eleven set bits, as in
\* ff fb (MPEG-1 Layer III) and ff f3 (MPEG-2 Layer III)
FrameSyncPattern(f) == f.header # <<>> /\ f.header[1] \in {"sync", "syn3"}

ID3Marker(f) == f.header # <<>> /\ f.header[1] = "ID3v"

\* C24: for a file of at least 100 bytes that can be opened, a .wav is
\* reported valid exactly when bytes 0-3 are RIFF and bytes 8-11 are WAVE, a
\* .mp3 exactly when its first bytes are an ID3 marker or an MPEG frame sync
\* pattern, and a .ogg, .m4a or .flac is reported valid whatever it holds.
C24_HeaderDecidesValidity ==
    (Verified /\ arg.size >= 100 /\ arg.readable) =>
        /\ arg.suffix \in {".wav", ".WAV"} => (ret.valid <=> RiffAnyWave(arg))
        /\ arg.suffix = ".mp3" =>
              (ret.valid <=> (ID3Marker(arg) \/ FrameSyncPattern(arg)))
        /\ arg.suffix \in {".ogg", ".m4a", ".flac"} => ret.valid

----------------------------------------------------------------------------
(* _handle_windows_mci_error applied on its own, any number of times       *)

\* self._handle_windows_mci_error(error_msg)
Classify(msg) ==
    LET info == HandleWindowsMciError(msg)
    IN  /\ op' = "_handle_windows_mci_error"
        /\ arg' = msg
        /\ ret' = info
        /\ mci_returned' = [mci_returned EXCEPT ![msg] = @ \cup {info}]
        /\ UNCHANGED <<hostVars, mixer_init, callVars, cliVars, raceVars, diagVars, probeVars>>

InitClassifier ==
    /\ PlainHandler
    /\ NoUnitCall
    /\ NoCommandLine

NextClassifier == \E msg \in ClassifierMsgs : Classify(msg)

SpecClassifier == InitClassifier /\ [][NextClassifier]_vars

----------------------------------------------------------------------------
(* Properties of _handle_windows_mci_error                                 *)

\* the message holds the words error 263 device busy, in a row
MentionsDeviceBusy(msg) ==
    \E i \in DOMAIN msg :
        /\ i + 3 <= Len(msg)
        /\ <<msg[i], msg[i + 1], msg[i + 2], msg[i + 3]>> = MsgDeviceBusy

\* the category of code 263 with its remediation list, as written in the source
DeviceNotOpen ==
    [error_type  |-> "MCI Error",
     error_code  |-> "263",
     description |-> "The specified device is not open or is not recognized by MCI",
     solutions   |-> <<"Update audio drivers",
                       "Try running as administrator",
                       "Use alternative audio library (sounddevice/pygame)",
                       "Check Windows audio service is running">>]

Signature(code) ==
    [error_type  |-> "MCI Error",
     error_code  |-> code,
     description |-> MciSolutions(code).description,
     solutions   |-> MciSolutions(code).solutions]

UnknownMciError ==
    [error_type  |-> "Unknown MCI Error",
     error_code  |-> "",
     description |-> "raw error message",
     solutions   |-> <<"Try alternative audio library",
                       "Check audio drivers",
                       "Convert to WAV format">>]

\* C21: every call of the classifier returned the entry of the first of the
\* signatures 263, 259, 277 (in that order) that is a substring of the
\* message, so a message holding both 259 and 263 got 263; a message holding
\* none of them got the Unknown category with the generic remediation list
\* (try another audio library, check the drivers, convert to WAV).
C21_FirstSignatureDecides ==
    \A msg \in ClassifierMsgs :
        mci_returned[msg] \subseteq
            { IF Contains(msg, "263") THEN Signature("263")
              ELSE IF Contains(msg, "259") THEN Signature("259")
              ELSE IF Contains(msg, "277") THEN Signature("277")
              ELSE UnknownMciError }

\* a message with 259 ahead of 263, one with 263 inside a longer word, one
\* with 259 alone and one with no signature were all classified
C21_Witness ==
    /\ mci_returned[MsgErrnoThenBusy] = {Signature("263")}
    /\ mci_returned[MsgInsideWord] = {Signature("263")}
    /\ mci_returned[MsgBadParameter] = {Signature("259")}
    /\ mci_returned[MsgThread] = {UnknownMciError}

HoldsNoCode(msg) == \A i \in DOMAIN MciCodes : ~Contains(msg, MciCodes[i])

\* C22: "device" and "MCI" are signatures of the classifier's table: no
\* message that holds "device" or "MCI" and no numeric code was ever
\* classified as Unknown.
C22_KeywordsAreSignatures ==
    \A msg \in ClassifierMsgs :
        (Contains(msg, "MCI") \/ Contains(msg, "device")) /\ HoldsNoCode(msg)
            => UnknownMciError \notin mci_returned[msg]

----------------------------------------------------------------------------
(* Properties of test_audio_system                                         *)

DiagnosticsRan == diag.keys # {}

PassMessages ==
    {"Initialized successfully", "Found audio devices",
     "Available for audio processing", "Available for WAV playback"}

\* C15: after a diagnostics run, every library the snapshot marks available
\* had its liveness check run and carries a pass or a fail message, and
\* every library it marks unavailable carries "Not installed" and was
\* neither imported nor initialised by the run.
C15_ChecksExactlyTheAvailable ==
    DiagnosticsRan =>
        \A b \in Libraries :
            IF audio_libraries[b]
              THEN /\ b \in diag_checked
                   /\ diag.library_tests[b] \in PassMessages \cup {"Error"}
              ELSE /\ b \notin diag_checked
                   /\ diag.library_tests[b] = "Not installed"

\* a run that passed pygame, failed sounddevice and skipped pydub
C15_Witness ==
    /\ DiagnosticsRan
    /\ audio_libraries["pygame"]
    /\ diag.library_tests["pygame"] = "Initialized successfully"
    /\ audio_libraries["sounddevice"]
    /\ diag.library_tests["sounddevice"] = "Error"
    /\ ~audio_libraries["pydub"]
    /\ diag.library_tests["pydub"] = "Not installed"

\* C16: a diagnostics run reports success exactly when every liveness check
\* it attempted passed and at least one library is available; with no
\* library available it reports failure and recommends installing the
\* audio libraries.
C16_SuccessIffAllPassedAndSomeAvailable ==
    DiagnosticsRan =>
        /\ diag.success <=>
              /\ \A b \in diag_checked : diag.library_tests[b] # "Error"
              /\ \E b \in Libraries : audio_libraries[b]
        /\ (\A b \in Libraries : ~audio_libraries[b]) =>
              /\ ~diag.success
              /\ "Install audio libraries: pip install pygame sounddevice pydub simpleaudio scipy"
                    \in Range(diag.recommendations)

\* a run on a host without any library: nothing attempted, nothing failed,
\* and the run reports failure
C16_Witness ==
    /\ DiagnosticsRan
    /\ \A b \in Libraries : ~audio_libraries[b]
    /\ diag_checked = {}
    /\ ~diag.success
    /\ Len(diag.recommendations) = 2

\* C17: running the diagnostics changes nothing a later play_audio_file call
\* depends on: a call initialises the pygame mixer only if it would have
\* done so had the diagnostics never run, that is, only if no earlier call
\* had initialised it.
C17_DiagnosticsLeaveDispatchAlone ==
    pc = "pygame_init" => ~diag_quit_mixer

----------------------------------------------------------------------------
(* Method 2 of play_audio_file entered by several threads at once.  The    *)
(* handler takes no lock; pygame.mixer is one object per process.  Each    *)
(* caller runs lines 505-529 on its own: the get_init() test, then         *)
(* pre_init()/init(), then the start of its thread.                        *)

InitMixer ==
    /\ Constructed
    /\ Available("pygame")
    /\ NoUnitCall
    /\ NoCommandLine

Step(c, to) == callers' = [callers EXCEPT ![c] = to]

\* caller c enters the try block of Method 2 (line 501)
ReachPygame(c) ==
    /\ callers[c] = "idle"
    /\ Step(c, "pygame")
    /\ UNCHANGED <<import_raised, speechVars, reinitialised, mixer_init, hostVars,
                   callVars, unitVars, diagVars, probeVars, cliVars>>

\* line 505: "if not pygame.mixer.get_init()"
CallerCheck(c) ==
    /\ callers[c] = "pygame"
    /\ Step(c, IF mixer_init THEN "pygame_thread" ELSE "pygame_init")
    /\ UNCHANGED <<import_raised, speechVars, reinitialised, mixer_init, hostVars,
                   callVars, unitVars, diagVars, probeVars, cliVars>>

\* lines 506-512: pygame.mixer.pre_init(...); pygame.mixer.init()
CallerInit(c) ==
    /\ callers[c] = "pygame_init"
    /\ reinitialised' = (reinitialised \/ mixer_init)
    /\ mixer_init' = TRUE
    /\ Step(c, "pygame_thread")
    /\ UNCHANGED <<import_raised, speechVars, hostVars, callVars, unitVars, diagVars, probeVars,
                   cliVars>>

\* line 542: pygame.mixer.init() raises and the caller leaves Method 2
CallerInitError(c) ==
    /\ callers[c] = "pygame_init"
    /\ reinitialised' = (reinitialised \/ mixer_init)
    /\ Step(c, "simpleaudio")
    /\ UNCHANGED <<import_raised, speechVars, mixer_init, hostVars, callVars, unitVars, diagVars,
                   probeVars, cliVars>>

\* lines 528-540: the caller starts its thread and returns
CallerStart(c) ==
    /\ callers[c] = "pygame_thread"
    /\ Step(c, "returned")
    /\ UNCHANGED <<import_raised, speechVars, reinitialised, mixer_init, hostVars,
                   callVars, unitVars, diagVars, probeVars, cliVars>>

NextMixer ==
    \E c \in Callers :
        \/ ReachPygame(c)
        \/ CallerCheck(c)
        \/ CallerInit(c)
        \/ CallerInitError(c)
        \/ CallerStart(c)

SpecMixer == InitMixer /\ [][NextMixer]_vars

\* C26: in every interleaving of concurrent play_audio_file calls that
\* reach Method 2, pygame.mixer.init() is called only while the mixer is
\* not initialised.
C26_InitOnlyWhileUninitialised == ~reinitialised

----------------------------------------------------------------------------
(* PurePythonAudioHandler.__init__ after mkdir: _detect_available_libraries*)
(* (four probes in source order), _detect_windows_audio_devices and        *)
(* _check_windows_audio_drivers.  An import is "ok", "missing" (it raises  *)
(* ImportError) or "broken" (it raises something else, as sounddevice does *)
(* with OSError when the PortAudio library cannot be loaded).  What the    *)
(* host answers is a fact of the host: the first time something is asked   *)
(* the answer is any of the possible ones, and from then on it is the same.*)

ImportOutcomes == {"ok", "missing", "broken"}

Unasked == "unasked"

HostFacts ==
    [sounddevice : ImportOutcomes, numpy : {"ok", "missing"},
     query : {"some", "none", "raises"},
     pygame : {Unasked}, mixer : {Unasked}, pydub : {Unasked},
     simpleaudio : {Unasked}, winsound : {Unasked}, service : {Unasked},
     wmic : {Unasked}, beep : {Unasked}]

\* the host answers x when asked for fact
Answers(fact, x) == host[fact] \in {Unasked, x}

\* libraries[b] = v on the dict being built
Put(libraries, b, v) ==
    [x \in DOMAIN libraries \cup {b} |-> IF x = b THEN v ELSE libraries[x]]

InitProbe ==
    /\ is_windows \in BOOLEAN
    /\ scipy_installed \in BOOLEAN
    /\ host \in HostFacts
    /\ audio_libraries = [b \in {} |-> FALSE]
    /\ windows_audio_devices = NoDevices
    /\ driver_status = NoDriverStatus
    /\ first_snapshot = NoSnapshot
    /\ probe_pc = "pygame"
    /\ NoCallYet
    /\ NoUnitCall
    /\ NoCommandLine

\* "except ImportError:" around each probe
Caught(import) == import = "missing"

\* an exception no except clause of the probe matches leaves __init__
Propagate ==
    /\ probe_pc' = "raised"
    /\ UNCHANGED <<audio_libraries, mixer_init>>

\* lines 112-130; init is what pre_init/init/quit do on Windows
ProbePygame(import, init) ==
    /\ probe_pc = "pygame"
    /\ Answers("pygame", import)
    /\ (is_windows /\ import = "ok") => Answers("mixer", init)
    /\ host' = [host EXCEPT !.pygame = import,
                            !.mixer = IF is_windows /\ import = "ok"
                                        THEN init ELSE @]
    /\ IF import = "ok"
         THEN /\ audio_libraries' =
                    Put(audio_libraries, "pygame", ~is_windows \/ init = "ok")
              /\ mixer_init' = IF is_windows THEN FALSE ELSE mixer_init
              /\ probe_pc' = "sounddevice"
       ELSE IF Caught(import)
         THEN /\ audio_libraries' = Put(audio_libraries, "pygame", FALSE)
              /\ probe_pc' = "sounddevice"
              /\ UNCHANGED mixer_init
       ELSE Propagate
    /\ UNCHANGED <<is_windows, scipy_installed, windows_audio_devices,
                   driver_status, first_snapshot, callVars, cliVars, raceVars,
                   diagVars, unitVars>>

\* lines 133-155
ProbeSoundDevice ==
    /\ probe_pc = "sounddevice"
    /\ IF host.sounddevice = "ok" /\ host.numpy = "ok"
         THEN /\ audio_libraries' =
                    Put(audio_libraries, "sounddevice",
                        ~is_windows \/ host.query = "some")
              /\ probe_pc' = "pydub"
              /\ UNCHANGED mixer_init
       ELSE IF Caught(IF host.sounddevice = "ok" THEN host.numpy
                                                  ELSE host.sounddevice)
         THEN /\ audio_libraries' = Put(audio_libraries, "sounddevice", FALSE)
              /\ probe_pc' = "pydub"
              /\ UNCHANGED mixer_init
       ELSE Propagate
    /\ UNCHANGED <<is_windows, scipy_installed, windows_audio_devices, host,
                   driver_status, first_snapshot, callVars, cliVars, raceVars, diagVars, unitVars>>

\* lines 158-165
ProbePydub(import) ==
    /\ probe_pc = "pydub"
    /\ Answers("pydub", import)
    /\ host' = [host EXCEPT !.pydub = import]
    /\ IF import = "ok" \/ Caught(import)
         THEN /\ audio_libraries' = Put(audio_libraries, "pydub", import = "ok")
              /\ probe_pc' = "simpleaudio"
              /\ UNCHANGED mixer_init
         ELSE Propagate
    /\ UNCHANGED <<is_windows, scipy_installed, windows_audio_devices,
                   driver_status, first_snapshot, callVars, cliVars, raceVars, diagVars, unitVars>>

\* lines 168-187
ProbeSimpleAudio(import) ==
    /\ probe_pc = "simpleaudio"
    /\ Answers("simpleaudio", import)
    /\ host' = [host EXCEPT !.simpleaudio = import]
    /\ IF import = "ok" \/ Caught(import)
         THEN /\ audio_libraries' =
                    Put(audio_libraries, "simpleaudio", import = "ok")
              /\ probe_pc' = "devices"
              /\ UNCHANGED mixer_init
         ELSE Propagate
    /\ UNCHANGED <<is_windows, scipy_installed, windows_audio_devices,
                   driver_status, first_snapshot, callVars, cliVars, raceVars, diagVars, unitVars>>

\* line 33: _detect_windows_audio_devices() if self.is_windows else {}.
\* Both the import of sounddevice and the query sit in "except Exception".
DetectWindowsAudioDevices(winsound) ==
    /\ probe_pc = "devices"
    /\ is_windows => Answers("winsound", winsound)
    /\ host' = [host EXCEPT !.winsound = IF is_windows THEN winsound ELSE @]
    /\ windows_audio_devices' =
          IF is_windows
            THEN [available_devices |->
                      IF host.sounddevice = "ok" /\ host.query = "some"
                        THEN <<0>> ELSE <<>>,
                  winsound_available |-> (winsound = "ok")]
            ELSE NoDevices
    /\ probe_pc' = "drivers"
    /\ UNCHANGED <<is_windows, scipy_installed, audio_libraries,
                   driver_status, first_snapshot, mixer_init, callVars, cliVars, raceVars, diagVars, unitVars>>

\* what "sc query AudioSrv", "wmic sounddev get name,status" and
\* winsound.MessageBeep can do
ServiceOutcomes == {"running", "stopped", "raises"}
WmicOutcomes == {"drivers", "none", "failed", "raises"}
BeepOutcomes == {"ok", "raises"}

\* lines 194-265
\* mutant of DriverStatus: the recommendations list is shared by the calls
DriverStatus_Shared(service, wmic, beep) ==
    [keys |-> DriverStatusKeys,
     compatible |-> (wmic = "drivers" \/ beep = "ok"),
     audio_service_running |-> (service = "running"),
     drivers_detected |-> (wmic = "drivers"),
     recommendations |->
         (IF first_snapshot = NoSnapshot THEN <<>>
            ELSE first_snapshot.drivers.recommendations)
         \o (IF service = "stopped" THEN <<"Start Windows Audio service">>
                                    ELSE <<>>)
         \o (CASE wmic = "none" -> <<"Update or reinstall audio drivers">>
               [] wmic = "raises" ->
                     <<"Check audio drivers manually in Device Manager">>
               [] OTHER -> <<>>)
         \o (IF beep = "raises" THEN <<"Check Windows audio configuration">>
                                ELSE <<>>)]

DriverStatus(service, wmic, beep) ==
    [keys |-> DriverStatusKeys,
     compatible |-> (wmic = "drivers" \/ beep = "ok"),
     audio_service_running |-> (service = "running"),
     drivers_detected |-> (wmic = "drivers"),
     recommendations |->
         (IF service = "stopped" THEN <<"Start Windows Audio service">>
                                 ELSE <<>>)
         \o (CASE wmic = "none" -> <<"Update or reinstall audio drivers">>
               [] wmic = "raises" ->
                     <<"Check audio drivers manually in Device Manager">>
               [] OTHER -> <<>>)
         \o (IF beep = "raises" THEN <<"Check Windows audio configuration">>
                                ELSE <<>>)]

\* lines 191-192: the dict the method returns when called off Windows
NotWindows ==
    [keys |-> {"compatible", "message"}, compatible |-> TRUE,
     audio_service_running |-> FALSE, drivers_detected |-> FALSE,
     recommendations |-> <<>>]

\* _check_windows_audio_drivers()
CheckDrivers(service, wmic, beep) ==
    IF ~is_windows THEN NotWindows ELSE DriverStatus(service, wmic, beep)

\* line 34: _check_windows_audio_drivers() if self.is_windows else {}
CheckWindowsAudioDrivers(service, wmic, beep) ==
    /\ probe_pc = "drivers"
    /\ is_windows =>
          /\ Answers("service", service)
          /\ Answers("wmic", wmic)
          /\ Answers("beep", beep)
          \* line 248 imports winsound again, inside the try block
          /\ host.winsound = "missing" => beep = "raises"
    /\ host' = IF is_windows
                 THEN [host EXCEPT !.service = service, !.wmic = wmic,
                                   !.beep = beep]
                 ELSE host
    /\ driver_status' = IF is_windows THEN CheckDrivers(service, wmic, beep)
                                      ELSE NoDriverStatus
    /\ probe_pc' = "constructed"
    /\ UNCHANGED <<is_windows, scipy_installed, audio_libraries,
                   windows_audio_devices, first_snapshot, mixer_init, callVars,
                   cliVars, raceVars, diagVars, unitVars>>

\* what a constructed handler holds
Snapshot ==
    [keys |-> {"libraries", "devices", "drivers"},
     libraries |-> audio_libraries,
     devices |-> windows_audio_devices,
     drivers |-> driver_status]

\* PurePythonAudioHandler() is called a second time in the same process on
\* the same host: the first handler keeps its snapshot, __init__ starts over
ConstructAgain ==
    /\ probe_pc = "constructed"
    /\ first_snapshot = NoSnapshot
    /\ first_snapshot' = Snapshot
    /\ audio_libraries' = [b \in {} |-> FALSE]
    /\ windows_audio_devices' = NoDevices
    /\ driver_status' = NoDriverStatus
    /\ probe_pc' = "pygame"
    /\ UNCHANGED <<is_windows, scipy_installed, host, mixer_init, callVars,
                   cliVars, raceVars, diagVars, unitVars>>

NextProbe ==
    \/ ConstructAgain
    \/ \E import \in ImportOutcomes, init \in {"ok", "raises"} :
           ProbePygame(import, init)
    \/ ProbeSoundDevice
    \/ \E import \in ImportOutcomes : ProbePydub(import)
    \/ \E import \in ImportOutcomes : ProbeSimpleAudio(import)
    \/ \E winsound \in {"ok", "missing"} : DetectWindowsAudioDevices(winsound)
    \/ \E service \in ServiceOutcomes, wmic \in WmicOutcomes,
          beep \in BeepOutcomes :
           CheckWindowsAudioDrivers(service, wmic, beep)

SpecProbe == InitProbe /\ [][NextProbe]_vars

----------------------------------------------------------------------------
(* Properties of __init__                                                  *)

\* C18: whatever error the probing of a backend produces, construction does
\* not throw: it never leaves __init__ through an exception.
C18_ProbingNeverThrows == probe_pc # "raised"

\* the library probes have all run
Probed == DOMAIN audio_libraries = Libraries

\* C28: on every platform a backend whose minimal initialisation fails on
\* this host (its library is missing, the mixer does not initialise, the
\* device query fails or finds no output device) is marked unavailable by
\* the probing.
C28_FailedInitMarksUnavailable ==
    Probed =>
        /\ (host.pygame = "missing" \/ host.mixer = "raises")
              => ~audio_libraries["pygame"]
        /\ ("missing" \in {host.sounddevice, host.numpy}
               \/ host.query \in {"none", "raises"})
              => ~audio_libraries["sounddevice"]
        /\ host.pydub = "missing" => ~audio_libraries["pydub"]
        /\ host.simpleaudio = "missing" => ~audio_libraries["simpleaudio"]

\* a second handler has been constructed after the first
ProbedTwice == probe_pc = "constructed" /\ first_snapshot # NoSnapshot

C30_NotWindowsIsCompatible ==
    (probe_pc = "constructed" /\ ~is_windows) =>
        /\ "compatible" \in driver_status.keys
        /\ driver_status.compatible

----------------------------------------------------------------------------
(* list_audio_files applied to an output directory.  The directory is the  *)
(* sequence of entries iterdir() yields, in whatever order it yields them; *)
(* an entry is a regular file or not, and has a name, a suffix and a       *)
(* modification time.  Names only tell entries apart: the n-th entry       *)
(* yielded is called n.                                                    *)

AudioExtensions == {".mp3", ".wav", ".ogg", ".m4a", ".flac", ".aac"}

DirEntries(n) ==
    [name : {n}, suffix : {".wav", ".AAC", ".txt"}, is_file : {TRUE},
     mtime : {1, 2, 3}]
    \cup [name : {n}, suffix : {".wav"}, is_file : {FALSE}, mtime : {1, 2, 3}]

\* what iterdir() can yield from a directory of at most n entries
RECURSIVE Listings(_)
Listings(n) ==
    IF n = 0 THEN {<<>>}
    ELSE LET shorter == Listings(n - 1)
         IN  shorter \cup
             {Append(q, e) : q \in {s \in shorter : Len(s) = n - 1},
                             e \in DirEntries(n)}

\* the output directories, and one that cannot be listed
Directories ==
    {[listable |-> TRUE, entries |-> q] : q \in Listings(MaxDirEntries)}
    \cup {[listable |-> FALSE, entries |-> <<>>]}

\* the dict appended for one file
ListedFile(e) ==
    [filename |-> e.name, format |-> SuffixLower(e.suffix),
     modified_time |-> e.mtime]

\* the loop over self.output_dir.iterdir()
RECURSIVE Collect(_)
Collect(entries) ==
    IF entries = <<>> THEN <<>>
    ELSE LET e == Head(entries)
         IN  IF e.is_file /\ SuffixLower(e.suffix) \in AudioExtensions
               THEN <<ListedFile(e)>> \o Collect(Tail(entries))
               ELSE Collect(Tail(entries))

\* mutant of Older: reverse=True is left out
Older_Ascending(x, e) == x.modified_time > e.modified_time

\* x sorts after e under key=modified_time, reverse=True
Older(x, e) == x.modified_time < e.modified_time

\* e put in front of the first element that sorts after it (the sort is
\* stable: elements with equal keys keep their order)
Insert(sorted, e) ==
    LET after == {i \in DOMAIN sorted : Older(sorted[i], e)}
        at == IF after = {} THEN Len(sorted) + 1
              ELSE CHOOSE i \in after : \A j \in after : i <= j
    IN  SubSeq(sorted, 1, at - 1) \o <<e>> \o SubSeq(sorted, at, Len(sorted))

\* audio_files.sort(key=lambda x: x["modified_time"], reverse=True)
RECURSIVE SortNewestFirst(_)
SortNewestFirst(q) ==
    IF q = <<>> THEN <<>>
    ELSE Insert(SortNewestFirst(SubSeq(q, 1, Len(q) - 1)), q[Len(q)])

\* the dict list_audio_files returns; iterdir() raises on a directory that
\* cannot be listed
ListAudioFilesResult(dir) ==
    IF dir.listable
      THEN LET audio_files == SortNewestFirst(Collect(dir.entries))
           IN  [success |-> TRUE, count |-> Len(audio_files),
                files |-> audio_files]
      ELSE [success |-> FALSE, count |-> 0, files |-> <<>>]

InitList ==
    /\ PlainHandler
    /\ op = "none"
    /\ arg \in Directories
    /\ ret = <<>>
    /\ mci_returned = [msg \in ClassifierMsgs |-> {}]
    /\ NoCommandLine

\* self.list_audio_files()
ListAudioFiles ==
    /\ op = "none"
    /\ op' = "list_audio_files"
    /\ ret' = ListAudioFilesResult(arg)
    /\ UNCHANGED <<arg, mci_returned, hostVars, mixer_init, callVars, cliVars, raceVars, diagVars,
                   probeVars>>

NextList == ListAudioFiles

SpecList == InitList /\ [][NextList]_vars

----------------------------------------------------------------------------
(* Properties of list_audio_files                                          *)

Listed == op = "list_audio_files" /\ ret.success

\* C19: the files list_audio_files returns are the audio files of the
\* directory, each once, ordered by modification time, newest first.
C19_NewestFirst ==
    Listed =>
        /\ \A i, j \in DOMAIN ret.files :
               i < j => ret.files[i].modified_time >= ret.files[j].modified_time
        /\ \A i, j \in DOMAIN ret.files :
               i # j => ret.files[i].filename # ret.files[j].filename
        /\ {ret.files[i].filename : i \in DOMAIN ret.files}
             = {arg.entries[k].name : k \in
                  {n \in DOMAIN arg.entries :
                     /\ arg.entries[n].is_file
                     /\ arg.entries[n].suffix \in {".wav", ".AAC"}}}

\* three audio files met oldest first came back newest first
C19_Witness ==
    /\ Listed
    /\ Len(arg.entries) = 3
    /\ \A k \in 1..3 : arg.entries[k].is_file /\ arg.entries[k].mtime = k
                       /\ arg.entries[k].suffix # ".txt"
    /\ Len(ret.files) = 3
    /\ \A k \in 1..3 : ret.files[k].modified_time = 4 - k

----------------------------------------------------------------------------
(* main(): the command line interface, from the dispatch on args.action    *)
(* (line 808) on a handler that was constructed, to the exit of the        *)
(* process.  The selected method runs as modelled above; main() then       *)
(* prints its result and exits.                                            *)

\* the dict get_audio_info returns
GetAudioInfoResult(f) ==
    IF f.exists = "yes"
      THEN [success |-> TRUE, keys |-> {"success", "filename", "size_bytes",
                                        "size_kb", "format", "full_path"}]
      ELSE [success |-> FALSE, keys |-> {"success", "error"}]

\* handler.get_audio_info(args.file)
GetAudioInfo(f) ==
    /\ op = "none"
    /\ op' = "get_audio_info"
    /\ arg' = f
    /\ ret' = GetAudioInfoResult(f)
    /\ UNCHANGED <<mci_returned, hostVars, mixer_init, callVars, cliVars, raceVars,
                   diagVars, probeVars>>

CommandLines ==
    [action : {"play", "info"}, has_file : {TRUE}, file : Files]
    \cup [action : {"play", "info", "list", "test"}, has_file : {FALSE},
          file : {Missing}]

\* the output directory "list" reads
CliDirectories ==
    {d \in Directories : Len(d.entries) <= 1}

InitCli ==
    /\ Constructed
    /\ cli_pc = "dispatch"
    /\ cli_args \in CommandLines
    /\ exit_code = 0
    /\ op = "none"
    /\ arg \in IF cli_args.action = "list" THEN CliDirectories ELSE {<<>>}
    /\ ret = <<>>
    /\ mci_returned = [msg \in ClassifierMsgs |-> {}]

Running == cli_pc = "dispatch"

\* lines 809-811 and 814-816: print the error, sys.exit(1)
CliMissingFile ==
    /\ Running
    /\ cli_args.action \in {"play", "info"}
    /\ ~cli_args.has_file
    /\ cli_pc' = "exited"
    /\ exit_code' = 1
    /\ UNCHANGED <<cli_args, raceVars, hostVars, mixer_init, callVars, unitVars,
                   diagVars, probeVars>>

\* line 812
CliPlay ==
    /\ Running
    /\ cli_args.action = "play"
    /\ cli_args.has_file
    /\ ncalls = 0
    /\ PlayAudioFile(cli_args.file)

\* line 817
CliInfo ==
    /\ Running
    /\ cli_args.action = "info"
    /\ cli_args.has_file
    /\ GetAudioInfo(cli_args.file)

\* line 819
CliList ==
    /\ Running
    /\ cli_args.action = "list"
    /\ ListAudioFiles

\* line 821
CliTest(run) ==
    /\ Running
    /\ cli_args.action = "test"
    /\ diag.keys = {}
    /\ RunDiagnostics(run)

\* the selected method has returned its dict to main()
CliReturned ==
    CASE cli_args.action = "play" -> ncalls = 1 /\ pc = "returned"
      [] cli_args.action = "test" -> diag.keys # {}
      [] OTHER                    -> op # "none"

\* result.get("success", False)
CliSuccess ==
    CASE cli_args.action = "play" -> "success" \in result.keys /\ result.success
      [] cli_args.action = "test" -> diag.success
      [] OTHER                    -> ret.success

\* mutant of ExitCode: the test of line 825 is inverted
ExitCode_Inverted(success) == IF success THEN 1 ELSE 0

\* lines 825-826: sys.exit(1) unless success; falling off main() exits with 0
ExitCode(success) == IF success THEN 0 ELSE 1

\* mutant of CliExit: main() joins the playback threads before it exits
CliExit_Joining ==
    /\ Running
    /\ CliReturned
    /\ \A b \in AllBackends : tasks[b] # "running"
    /\ cli_pc' = "exited"
    /\ exit_code' = ExitCode(CliSuccess)
    /\ UNCHANGED <<cli_args, raceVars, hostVars, mixer_init, callVars, unitVars,
                   diagVars, probeVars>>

\* lines 823-826
CliExit ==
    /\ Running
    /\ CliReturned
    /\ cli_pc' = "exited"
    /\ exit_code' = ExitCode(CliSuccess)
    /\ UNCHANGED <<cli_args, raceVars, hostVars, mixer_init, callVars, unitVars,
                   diagVars, probeVars>>

NextCli ==
    \/ CliMissingFile
    \/ CliPlay
    \/ CliInfo
    \/ CliList
    \/ \E run \in [Libraries -> {"pass", "fail", "skip"}] : CliTest(run)
    \/ CliExit
    \/ Running /\ Preflight
    \/ Running /\ \E b \in Libraries : SkipBackend(b)
    \/ Running /\ SoundDeviceNoScipy
    \/ Running /\ \E msg \in ErrMsgs : SoundDeviceError(msg)
    \/ Running /\ SoundDeviceStart
    \/ Running /\ SoundDeviceReturn
    \/ Running /\ PygameCheck
    \/ Running /\ PygameInit
    \/ Running /\ \E msg \in ErrMsgs : PygameInitError(msg)
    \/ Running /\ PygameStart
    \/ Running /\ \E msg \in ErrMsgs : PygameStartError(msg)
    \/ Running /\ PygameReturn
    \/ Running /\ SimpleAudioStart
    \/ Running /\ \E msg \in ErrMsgs : SimpleAudioError(msg)
    \/ Running /\ SimpleAudioReturn
    \/ Running /\ PydubStart
    \/ Running /\ \E msg \in ErrMsgs : PydubError(msg)
    \/ Running /\ PydubReturn
    \/ Running /\ WinsoundSkip
    \/ Running /\ WinsoundReject
    \/ Running /\ WinsoundStart
    \/ Running /\ WinsoundError
    \/ Running /\ WinsoundReturn
    \/ Running /\ Exhausted
    \/ Running /\ \E b \in AllBackends : TaskComplete(b)
    \/ Running /\ \E b \in AllBackends : TaskError(b)

SpecCli == InitCli /\ [][NextCli]_vars

----------------------------------------------------------------------------
(* Properties of main()                                                    *)

\* the selected action returned a structure whose success is true
ActionSucceeded ==
    \/ /\ cli_args.action = "play"
       /\ cli_args.has_file
       /\ pc = "returned"
       /\ result.success
    \/ /\ cli_args.action = "info"
       /\ cli_args.has_file
       /\ op = "get_audio_info"
       /\ ret.success
    \/ /\ cli_args.action = "list"
       /\ op = "list_audio_files"
       /\ ret.success
    \/ /\ cli_args.action = "test"
       /\ DiagnosticsRan
       /\ diag.success

\* C20: the process exits with 0 exactly when the selected action returned a
\* structure whose success is true, and with 1 otherwise: on every reported
\* failure and when play or info is invoked without a file path.
C20_ExitCodeFollowsSuccess ==
    cli_pc = "exited" =>
        /\ exit_code \in {0, 1}
        /\ exit_code = 0 <=> ActionSucceeded
        /\ (cli_args.action \in {"play", "info"} /\ ~cli_args.has_file)
              => exit_code = 1

\* play started pygame and the process exited with 0 while the thread was
\* still rendering
C20_Witness ==
    /\ cli_pc = "exited"
    /\ cli_args.action = "play"
    /\ result.method = "pygame"
    /\ tasks["pygame"] = "running"
    /\ exit_code = 0
----------------------------------------------------------------------------
(* The public methods of one handler called in any order: one              *)
(* play_audio_file call and its threads, and any number of get_audio_info, *)
(* list_audio_files and test_audio_system calls in between its steps.      *)
(* _windows_driver_status is whatever the constructor found.               *)

DriverStatuses ==
    IF is_windows
      THEN {DriverStatus("running", "drivers", "ok"),
            DriverStatus("stopped", "none", "raises")}
      ELSE {NoDriverStatus}

InitHandler ==
    /\ HostSnapshot
    /\ NoCallYet
    /\ probe_pc = "constructed"
    /\ host = NoHostFacts
    /\ first_snapshot = NoSnapshot
    /\ driver_status \in DriverStatuses
    /\ NoUnitCall
    /\ NoCommandLine

\* the files play_audio_file and get_audio_info are given
HandlerFiles == {WavGood, Mp3Good, Missing}

HandlerDirectories == {d \in Directories : d.listable /\ d.entries = <<>>}

FirstCall == ncalls = 0

\* handler.get_audio_info(f), whatever was called before
CallGetAudioInfo(f) ==
    /\ op' = "get_audio_info"
    /\ arg' = f
    /\ ret' = GetAudioInfoResult(f)
    /\ UNCHANGED <<mci_returned, hostVars, mixer_init, callVars, cliVars,
                   raceVars, diagVars, probeVars>>

\* handler.list_audio_files() while the output directory is dir
CallListAudioFiles(dir) ==
    /\ op' = "list_audio_files"
    /\ arg' = dir
    /\ ret' = ListAudioFilesResult(dir)
    /\ UNCHANGED <<mci_returned, hostVars, mixer_init, callVars, cliVars,
                   raceVars, diagVars, probeVars>>

NextHandler ==
    \/ \E f \in HandlerFiles : FirstCall /\ PlayAudioFile(f)
    \/ Preflight
    \/ \E b \in Libraries : SkipBackend(b)
    \/ SoundDeviceNoScipy
    \/ \E msg \in ErrMsgs : SoundDeviceError(msg)
    \/ SoundDeviceStart
    \/ SoundDeviceReturn
    \/ PygameCheck
    \/ PygameInit
    \/ \E msg \in ErrMsgs : PygameInitError(msg)
    \/ PygameStart
    \/ \E msg \in ErrMsgs : PygameStartError(msg)
    \/ PygameReturn
    \/ SimpleAudioStart
    \/ \E msg \in ErrMsgs : SimpleAudioError(msg)
    \/ SimpleAudioReturn
    \/ PydubStart
    \/ \E msg \in ErrMsgs : PydubError(msg)
    \/ PydubReturn
    \/ WinsoundSkip
    \/ WinsoundReject
    \/ WinsoundStart
    \/ WinsoundError
    \/ WinsoundReturn
    \/ Exhausted
    \/ \E b \in AllBackends : TaskComplete(b)
    \/ \E b \in AllBackends : TaskError(b)
    \/ \E run \in [Libraries -> {"pass", "fail", "skip"}] : RunDiagnostics(run)
    \/ \E f \in HandlerFiles : CallGetAudioInfo(f)
    \/ \E dir \in HandlerDirectories : CallListAudioFiles(dir)

SpecHandler == InitHandler /\ [][NextHandler]_vars

----------------------------------------------------------------------------
(* Properties of the snapshot                                              *)

\* C27: no step of a play_audio_file, get_audio_info, list_audio_files or
\* test_audio_system call, in any interleaving, changes the capability
\* snapshot: the platform flag, the availability map, the device list and
\* the driver status stay as the constructor left them.
C27_SnapshotIsReadOnly ==
    [][/\ is_windows' = is_windows
       /\ audio_libraries' = audio_libraries
       /\ windows_audio_devices' = windows_audio_devices
       /\ driver_status' = driver_status]_vars

\* a play_audio_file call has fallen back from sounddevice and returned, the
\* diagnostics have run with a failed pygame test, and list_audio_files has
\* returned
C27_Witness ==
    /\ Succeeded
    /\ "sounddevice" \in failed
    /\ DiagnosticsRan
    /\ diag_checked # {}
    /\ ~diag.success
    /\ op = "list_audio_files"
    /\ ret.success
----------------------------------------------------------------------------
(* Further properties of play_audio_file                                   *)

\* the first call is in progress or has returned and test_audio_system has
\* not run: when the call began the mixer was not initialised
FirstCallAlone == ncalls = 1 /\ ~DiagnosticsRan

\* C31: a call changes no backend-global state unless it succeeds through
\* the backend concerned: once the pygame attempt of a call has failed, and
\* once a call has returned a failure, the mixer is initialised only if it
\* was when the call began.
C31_FailureLeavesMixerAlone ==
    FirstCallAlone =>
        /\ "pygame" \in failed => ~mixer_init
        /\ (pc = "returned" /\ ~result.success) => ~mixer_init
\* the call is between its first statement and a return statement
InCall == pc \notin {"idle", "returned"}

\* C32: whatever the file and whatever the backends do, a call that has
\* begun returns, and what it returns is a dict with a boolean success
\* entry; no state of the call is left through an exception.
C32_AlwaysReturnsADict ==
    /\ [](pc = "returned" =>
            "success" \in result.keys /\ result.success \in BOOLEAN)
    /\ InCall ~> pc = "returned"

\* every library backend was available and raised, the file is not a WAV
\* file, and the call has returned the exhaustion response
C32_Witness ==
    /\ pc = "returned"
    /\ failed = Libraries
    /\ file = Mp3Good
    /\ ~result.success
    /\ "success" \in result.keys

\* C33: in every success outcome the reported method names a backend the
\* snapshot marks available (winsound only on Windows with winsound marked
\* available), and it is exactly the backend whose thread this call started.
C33_MethodIsTheStartedBackend ==
    (pc = "returned" /\ result.success) =>
        /\ result.method \in Libraries => audio_libraries[result.method]
        /\ result.method = "winsound" =>
               is_windows /\ windows_audio_devices.winsound_available
        /\ Spawned = {result.method}

----------------------------------------------------------------------------
(* One play_audio_file call in which the two ways a block of Method 3 or 4 *)
(* can raise are told apart: its import statement (ImportRaises) or the    *)
(* start of its thread (SimpleAudioError, PydubError).                     *)

\* the blocks whose start step is an import and the start of a thread
ThreadOnly == {"simpleaudio", "pydub"}

NextStart ==
    \/ \E f \in Files : FirstCall /\ PlayAudioFile(f)
    \/ Preflight
    \/ \E b \in Libraries : SkipBackend(b)
    \/ SoundDeviceNoScipy
    \/ \E msg \in ErrMsgs : SoundDeviceError(msg)
    \/ SoundDeviceStart
    \/ SoundDeviceReturn
    \/ PygameCheck
    \/ PygameInit
    \/ \E msg \in ErrMsgs : PygameInitError(msg)
    \/ PygameStart
    \/ \E msg \in ErrMsgs : PygameStartError(msg)
    \/ PygameReturn
    \/ SimpleAudioStart
    \/ \E msg \in ErrMsgs : SimpleAudioError(msg)
    \/ SimpleAudioReturn
    \/ PydubStart
    \/ \E msg \in ErrMsgs : PydubError(msg)
    \/ PydubReturn
    \/ \E b \in ThreadOnly, msg \in ErrMsgs : ImportRaises(b, msg)
    \/ WinsoundSkip
    \/ WinsoundReject
    \/ WinsoundStart
    \/ WinsoundError
    \/ WinsoundReturn
    \/ Exhausted
    \/ \E b \in AllBackends : TaskComplete(b)
    \/ \E b \in AllBackends : TaskError(b)

SpecStart == Init /\ [][NextStart]_vars

\* the call has gone past Method 3: it is in Method 4, in the emergency
\* fallback or in the exhaustion response
PastSimpleAudio ==
    \/ pc \in {"pydub", "pydub_settle", "winsound", "winsound_settle", "exhausted"}
    \/ pc = "returned" /\ result.success /\ result.method \in {"pydub", "winsound"}
    \/ ExhaustionReported

\* backend b's block was entered and did not raise
StartedCleanly(b) == b \in Range(attempts) /\ b \notin failed

\* C34 as stated: Method 4, the emergency fallback and the exhaustion
\* response are reached only when simpleaudio is unavailable or its import
\* raises.
C34_PastSimpleAudioOnlyByImport ==
    PastSimpleAudio =>
        ~audio_libraries["simpleaudio"] \/ "simpleaudio" \in import_raised

\* C34: the start step of Methods 3 and 4 does not touch the file, so a
\* call that enters one of these blocks and whose block does not raise
\* returns success with it whatever the file holds; Method 4, the emergency
\* fallback and the exhaustion response are reached only when simpleaudio
\* is unavailable or its block raised, at the import or at the start of
\* the thread.
C34_StartStepIgnoresTheFile ==
    /\ \A b \in ThreadOnly :
          (pc = "returned" /\ StartedCleanly(b)) =>
              result.success /\ result.method = b
    /\ PastSimpleAudio =>
          ~audio_libraries["simpleaudio"] \/ "simpleaudio" \in failed

\* simpleaudio reports success for a .wav file that holds no audio
C34_Witness ==
    /\ pc = "returned"
    /\ file = WavJunk
    /\ StartedCleanly("simpleaudio")
    /\ result.success
    /\ result.method = "simpleaudio"

----------------------------------------------------------------------------
(* Further properties of the emergency fallback                            *)

\* the emergency fallback is open to play_audio_file on this host
WinsoundOpen == is_windows /\ windows_audio_devices.winsound_available

\* C35 as stated: on Windows with winsound marked available the exhaustion
\* response is returned only for files whose extension is not .wav.
C35_ExhaustionOnlyForNonWav ==
    (ExhaustionReported /\ WinsoundOpen) => SuffixLower(file.suffix) # ".wav"

\* C35: once the thread of the emergency fallback is started the call
\* returns success with winsound, whatever PlaySound does inside the thread;
\* on Windows with winsound marked available the exhaustion response is
\* returned only for a file whose extension is not .wav or when the
\* fallback itself raised before its thread was started.
C35_WinsoundSucceedsOnceStarted ==
    /\ (pc = "returned" /\ tasks["winsound"] # "none") =>
           result.success /\ result.method = "winsound"
    /\ (ExhaustionReported /\ WinsoundOpen) =>
           SuffixLower(file.suffix) # ".wav" \/ "winsound" \in failed

\* PlaySound failed inside the thread and the call reports success
C35_Witness ==
    /\ pc = "returned"
    /\ tasks["winsound"] = "errored"
    /\ SuffixLower(file.suffix) = ".wav"
    /\ result.success
    /\ result.method = "winsound"

----------------------------------------------------------------------------
(* Further properties of test_audio_system                                 *)

\* C36: test_audio_system never shuts down the mixer a pygame playback
\* relies on: from the get_init() test of Method 2 to the end of
\* pygame_play's load and play, the mixer stays initialised.
C36_DiagnosticsKeepTheMixer ==
    /\ pc \in {"pygame_thread", "pygame_settle"} => mixer_init
    /\ tasks["pygame"] = "running" => mixer_init

----------------------------------------------------------------------------
(* The generate_speech tool of kokoro_tts_mcp.py, from the attempt to save *)
(* the audio to the response: the temporary file of the auto-play          *)
(* fallback, the delayed_cleanup thread that unlinks it and the            *)
(* play_audio_file call with its threads.  play_audio_file waits for       *)
(* nothing but time.sleep(0.2), so the seconds delayed_cleanup sleeps are  *)
(* counted once the call has returned.                                     *)

\* time.sleep(5) in delayed_cleanup
CleanupDelay == 5

\* what the speech service can have put into the file that is played
SpeechFiles == {WavGood, WavJunk, Mp3Good}

\* generate_speech up to "if auto_play:": the audio is saved or the save
\* raises and saved_file_path is None
GenerateSpeech(save_ok, auto_play) ==
    /\ speech_pc = "none"
    /\ playback_file' = IF save_ok THEN "saved" ELSE "none"
    /\ speech_pc' = IF auto_play THEN "auto_play" ELSE "responded"
    /\ UNCHANGED <<temp_file, delayed_cleanup, slept, callers, reinitialised,
                   import_raised, hostVars, mixer_init, callVars, unitVars,
                   diagVars, probeVars, cliVars>>

\* "if not playback_file:": the audio is written to a NamedTemporaryFile
\* (delete=False) and the delayed_cleanup thread is started
MakeTempFile ==
    /\ speech_pc = "auto_play"
    /\ playback_file = "none"
    /\ temp_file' = "present"
    /\ playback_file' = "temp"
    /\ delayed_cleanup' = "sleeping"
    /\ UNCHANGED <<speech_pc, slept, callers, reinitialised, import_raised,
                   hostVars, mixer_init, callVars, unitVars, diagVars,
                   probeVars, cliVars>>

\* play_result = audio_handler.play_audio_file(playback_file)
AttemptPlayback(f) ==
    /\ speech_pc = "auto_play"
    /\ playback_file # "none"
    /\ ncalls = 0
    /\ PlayAudioFile(f)

\* the response is built from play_result and returned
SpeechRespond ==
    /\ speech_pc = "auto_play"
    /\ ncalls = 1
    /\ pc = "returned"
    /\ speech_pc' = "responded"
    /\ UNCHANGED <<playback_file, temp_file, delayed_cleanup, slept, callers,
                   reinitialised, import_raised, hostVars, mixer_init,
                   callVars, unitVars, diagVars, probeVars, cliVars>>

\* delayed_cleanup: one more second of time.sleep(5)
CleanupSleeps ==
    /\ delayed_cleanup = "sleeping"
    /\ pc = "returned"
    /\ slept < CleanupDelay
    /\ slept' = slept + 1
    /\ UNCHANGED <<speech_pc, playback_file, temp_file, delayed_cleanup,
                   callers, reinitialised, import_raised, hostVars,
                   mixer_init, callVars, unitVars, diagVars, probeVars,
                   cliVars>>

\* delayed_cleanup after the sleep: os.unlink(playback_file) removes the
\* file, or raises and the warning is logged
DelayedCleanup(unlinked) ==
    /\ delayed_cleanup = "sleeping"
    /\ slept = CleanupDelay
    /\ temp_file' = IF unlinked THEN "unlinked" ELSE temp_file
    /\ delayed_cleanup' = IF unlinked THEN "done" ELSE "failed"
    /\ UNCHANGED <<speech_pc, playback_file, slept, callers, reinitialised,
                   import_raised, hostVars, mixer_init, callVars, unitVars,
                   diagVars, probeVars, cliVars>>

NextSpeech ==
    \/ \E save_ok, auto_play \in BOOLEAN : GenerateSpeech(save_ok, auto_play)
    \/ MakeTempFile
    \/ \E f \in SpeechFiles : AttemptPlayback(f)
    \/ SpeechRespond
    \/ CleanupSleeps
    \/ \E unlinked \in BOOLEAN : DelayedCleanup(unlinked)
    \/ Preflight
    \/ \E b \in Libraries : SkipBackend(b)
    \/ SoundDeviceNoScipy
    \/ \E msg \in ErrMsgs : SoundDeviceError(msg)
    \/ SoundDeviceStart
    \/ SoundDeviceReturn
    \/ PygameCheck
    \/ PygameInit
    \/ \E msg \in ErrMsgs : PygameInitError(msg)
    \/ PygameStart
    \/ \E msg \in ErrMsgs : PygameStartError(msg)
    \/ PygameReturn
    \/ SimpleAudioStart
    \/ \E msg \in ErrMsgs : SimpleAudioError(msg)
    \/ SimpleAudioReturn
    \/ PydubStart
    \/ \E msg \in ErrMsgs : PydubError(msg)
    \/ PydubReturn
    \/ WinsoundSkip
    \/ WinsoundReject
    \/ WinsoundStart
    \/ WinsoundError
    \/ WinsoundReturn
    \/ Exhausted
    \/ \E b \in AllBackends : TaskComplete(b)
    \/ \E b \in AllBackends : TaskError(b)

SpecSpeech == Init /\ [][NextSpeech]_vars

\* C37: the temporary file of the auto-play fallback is never removed while
\* a playback thread started for it is still running: delayed_cleanup
\* unlinks it only after that thread has finished.
C37_TempFileOutlivesPlayback ==
    \A b \in AllBackends :
        (playback_file = "temp" /\ tasks[b] = "running") => temp_file # "unlinked"

----------------------------------------------------------------------------
(* Further properties of main()                                            *)

\* main() holds the result of a play action whose backend started
PlayStarted ==
    /\ cli_args.action = "play"
    /\ ncalls = 1
    /\ pc = "returned"
    /\ result.success

\* C38: after a play action whose backend started, main() can print the
\* result and leave as soon as play_audio_file has returned, whatever the
\* daemon thread is doing; it then exits with code 0, which ends the thread
\* where it stands.
C38_ExitDoesNotWaitForPlayback ==
    /\ (Running /\ PlayStarted) => ENABLED CliExit
    /\ (cli_pc = "exited" /\ PlayStarted) => exit_code = 0

\* the process has exited with 0 while the sounddevice thread was playing
C38_Witness ==
    /\ cli_pc = "exited"
    /\ PlayStarted
    /\ result.method = "sounddevice"
    /\ tasks["sounddevice"] = "running"
    /\ exit_code = 0

----------------------------------------------------------------------------
(* The tools of kokoro_tts_mcp.py: handle_list_tools advertises them,      *)
(* handle_call_tool routes a call by name to a method of the speech client *)
(* (tts_client) or of the audio handler (audio_handler) and turns what the *)
(* method does into a text: "ok", "error" (a text that starts with         *)
(* "Error") or "unknown" ("Unknown tool: <name>").                         *)

\* the names of the Tool(...) entries handle_list_tools returns
AdvertisedTools ==
    {"generate_speech", "list_voices", "check_tts_status", "play_audio",
     "list_audio_files", "open_output_folder"}

\* the names a client can send
ToolNames == AdvertisedTools \cup {"open_folder", "test_audio"}

\* the public methods of PurePythonAudioHandler
HandlerOperations ==
    {"get_available_libraries", "play_audio_file", "get_audio_info",
     "list_audio_files", "test_audio_system"}

\* the methods of KokoroTTSClient
ClientOperations ==
    {"get_available_voices", "generate_speech", "check_service_health"}

\* the "if name == ..." branches of handle_call_tool
Branches ==
    {"generate_speech", "list_voices", "check_tts_status", "play_audio",
     "list_audio_files", "open_output_folder"}

\* the method the branch of handle_call_tool calls
Route(name) ==
    CASE name = "generate_speech"    -> "generate_speech"
      [] name = "list_voices"        -> "get_available_voices"
      [] name = "check_tts_status"   -> "check_service_health"
      [] name = "play_audio"         -> "play_audio_file"
      [] name = "list_audio_files"   -> "list_audio_files"
      [] name = "open_output_folder" -> "open_output_folder"
      [] OTHER                       -> "none"

\* the branches that return an error text when their argument is missing
NeedsArgument == {"generate_speech", "play_audio"}

\* what the routed method can do: return a result that reports success,
\* return one that reports a failure, or raise; an attribute that does not
\* exist raises AttributeError
Outcomes(name) ==
    IF Route(name) \in HandlerOperations \cup ClientOperations
      THEN {"success", "failure", "raises"}
      ELSE {"raises"}

\* the text handle_call_tool returns
ToolText(name, has_args, outcome) ==
    IF name \notin Branches THEN "unknown"
    ELSE IF name \in NeedsArgument /\ ~has_args THEN "error"
    ELSE IF outcome = "raises" THEN "error"
    ELSE IF outcome = "failure" /\ name = "play_audio" THEN "error"
    ELSE "ok"

\* handle_call_tool(name, arguments)
HandleCallTool(name, has_args, outcome) ==
    /\ op' = name
    /\ arg' = [has_args |-> has_args, outcome |-> outcome]
    /\ ret' = ToolText(name, has_args, outcome)
    /\ UNCHANGED <<mci_returned, hostVars, mixer_init, callVars, cliVars,
                   raceVars, diagVars, probeVars>>

NextTools ==
    \E name \in ToolNames, has_args \in BOOLEAN :
        \E outcome \in Outcomes(name) : HandleCallTool(name, has_args, outcome)

SpecTools == Init /\ [][NextTools]_vars

\* C39: every advertised tool is routed to a method that exists on the
\* audio handler or on the speech client, so that a call with its argument
\* whose method reports success returns a text that is no error; a name
\* that is not advertised returns the "Unknown tool" text.
C39_AdvertisedToolsAreRouted ==
    /\ op \in AdvertisedTools =>
          Route(op) \in HandlerOperations \cup ClientOperations
    /\ (op \in AdvertisedTools /\ arg.has_args /\ arg.outcome = "success") =>
          ret = "ok"
    /\ op \in ToolNames \ AdvertisedTools => ret = "unknown"

====
